---------------------------- MODULE Spec2Model ----------------------------
(***************************************************************************)
(* Model of the CFPB complaint ingestion pipeline:                         *)
(*   - SearchAPIRealDataFetcher (src/analysis/real_data_fetcher_search.py) *)
(*     with its Supabase cache (src/analysis/supabase_data_manager.py),    *)
(*   - RealDataFetcher (src/analysis/real_data_fetcher_lite.py),           *)
(*   - CFPBRealDataFetcher (src/CFPB_Dashboard_For_Mac/analysis/           *)
(*     real_data_fetcher.py),                                              *)
(*   - CFPBAnalyzer.analyze_harm_mechanisms (src/analysis/cfpb_analyzer.py).*)
(* Time is counted in ticks, TicksPerDay ticks to a day, so that a          *)
(* datetime carries a time of day and timedelta.days is a floor.           *)
(***************************************************************************)
EXTENDS Integers, Sequences, FiniteSets, TLC

VARIABLES
    fetcher,        \* which class runs: "search", "lite", "mac", "filter"
    entry,          \* entry point: "load_and_filter_data", "_page", "_apply_filters"
    pc,             \* position of the run
    months_in,      \* the configured month count (argument or MONTHS_WINDOW)
    start_date,     \* self.start_date (ticks)
    end_date,       \* self.end_date (ticks)
    lite_mode,      \* self.lite_mode
    max_records,    \* self.max_records
    env,            \* SUPABASE_AVAILABLE, credentials, use_cache argument
    use_cache,      \* self.use_cache
    supabase_manager, \* TRUE iff self.supabase_manager is not None
    remote_table,   \* rows of the Supabase table cfpb_complaints
    remote_status,  \* what became of the remote read and write
    provider,       \* what the search API holds: [head, total, mode]
    size,           \* the size argument of _page
    frm,            \* local frm of _page
    total_yielded,  \* local total_yielded of _page
    warned,         \* local warned of _page
    hits,           \* the page _page is suspended on at its yield
    requests,       \* log of the HTTP requests issued by _page
    pages,          \* lengths of the pages yielded so far
    rows,           \* local rows of load_and_filter_data
    truncated,      \* local truncated of load_and_filter_data
    cache_file,     \* data/complaints_filtered_{months}months.csv
    csv_file,       \* data/complaints.csv (the extracted bulk archive)
    warnings,       \* columns a printed "WARNING: No ... column found" line names
    chunks,         \* local chunks of load_and_filter_data: the length of each chunk held
    pending,        \* per run, the frames it has still to hand to cache_complaints
    written,        \* log of the batches upserted by cache_complaints, in order
    run,            \* which run of load_and_filter_data this is, and the time since the first
    calls,          \* log of the operations called on a CFPBAnalyzer
    self_df,        \* CFPBAnalyzer.df
    gui,            \* CFPBAnalysisGUI: analysis_running, the two buttons, the worker threads
    trend_df,       \* TrendAnalytics.df
    consulted,      \* log of the sources consulted, in order
    served,         \* the source the result came from, "" while running
    result,         \* what the entry point returned
    batch,          \* input DataFrame of a direct _apply_filters call
    once,           \* _apply_filters(batch)
    twice,          \* _apply_filters(_apply_filters(batch))
    filtered_df,    \* CFPBAnalyzer.filtered_df
    harm_i,         \* position of the loop over self.harm_mechanisms.items()
    by_mechanism,   \* local results of analyze_harm_mechanisms
    harm_summary,   \* local harm_summary of analyze_harm_mechanisms
    harm_categories \* the column df_copy['harm_categories'], a label list per row

vars == << fetcher, entry, pc, months_in, start_date, end_date, lite_mode,
           max_records, env, use_cache, supabase_manager, remote_table,
           remote_status, provider, size, frm, total_yielded, warned, hits,
           requests, pages, rows, truncated, cache_file, csv_file, warnings, chunks, pending, written, run, calls,
           self_df, gui, trend_df,
           consulted,
           served, result, batch, once, twice, filtered_df, harm_i,
           by_mechanism, harm_summary, harm_categories >>

-----------------------------------------------------------------------------
(* Bounds of the model *)

TicksPerDay == 2          \* resolution of a datetime within a day
MaxBatch == 2             \* longest batch handed to a direct filter call
MaxTotal == 3             \* most records a small provider holds
MaxCorpus == 2            \* most complaints of a corpus handed to the analyzer
BigCopies == 40000        \* repetitions of a block of rows in a large bulk file
MaxCalls == 3             \* most operations called on one analyzer
MaxTrendRows == 3         \* most rows of a frame handed to TrendAnalytics
MaxWorkers == 2           \* most GUI analysis threads running or with their reset still queued

(* Program constants *)

DaysPerMonth == 30        \* timedelta(days=30 * months)
SearchMaxMonths == 3      \* min(int(months), 3)
LiteMaxMonths == 12       \* min(months, 12)
LiteDefaultMonths == 4    \* except ValueError: months = 4
MacDefaultMonths == 6     \* except ValueError: months = 6
MinMonths == 1            \* max(1, ...)
FreshDays == 7            \* cache_age.days < 7
ToleranceDays == 7        \* self.end_date - timedelta(days=7)
ApiMaxOffset == 10000     \* min(10000, self.max_records)
DefaultPageSize == 1000   \* def _page(self, size=1000)
ChunkSize == 50000        \* chunk_size = 50000

Days(n) == n * TicksPerDay

\* datetime.now() of the run: the middle of a day, far enough from 0
Now == Days(400) + 1

Min2(a, b) == IF a <= b THEN a ELSE b
Max2(a, b) == IF a >= b THEN a ELSE b

RECURSIVE SumSeq(_)
SumSeq(sq) == IF sq = << >> THEN 0 ELSE Head(sq) + SumSeq(Tail(sq))

\* timedelta.days: whole days, rounded towards minus infinity
TimedeltaDays(delta) == delta \div TicksPerDay

-----------------------------------------------------------------------------
(* Values of a DataFrame *)

\* pandas NaT: a date that failed to parse (errors="coerce")
NaT == 0 - 1

\* A narrative cell: NaN, or a string given as its sequence of characters
NaN == [isna |-> TRUE, s |-> << >>]
Str(chars) == [isna |-> FALSE, s |-> chars]

NARRATIVE == "Consumer complaint narrative"
PRODUCT == "Product"
DATE == "Date received"

AllCols == {DATE, PRODUCT, NARRATIVE}

\* pd.DataFrame(): no columns, no rows
EmptyFrame == [cols |-> {}, rows |-> << >>]

None == [kind |-> "None"]
Raised == [kind |-> "raised"]
RaisedWith(err) == [kind |-> "raised", error |-> err]
Table(df) == [kind |-> "table", df |-> df]

\* self.credit_exclusions
credit_exclusions ==
    { "Credit reporting, credit repair services, or other personal consumer reports",
      "Credit reporting",
      "Credit repair services",
      "Other personal consumer reports" }

-----------------------------------------------------------------------------
(* str.strip(): drop leading and trailing whitespace *)

\* str.isspace() of one character. The characters that have no escape in a
\* string here are written by their code: "x0b" is '\x0b' (vertical tab),
\* "x1c".."x1f" the separators, "x85" and "xa0" next line and no-break space,
\* "u2003" and "u3000" stand for the Unicode spaces.
IsSpace(c) == c \in {" ", "\t", "\n", "\r", "\f", "x0b", "x1c", "x1d", "x1e", "x1f",
                     "x85", "xa0", "u1680", "u2000", "u2001", "u2002", "u2003",
                     "u2004", "u2005", "u2006", "u2007", "u2008", "u2009", "u200a",
                     "u2028", "u2029", "u202f", "u205f", "u3000"}

RECURSIVE LStrip(_)
LStrip(s) ==
    IF s = << >> THEN << >>
    ELSE IF IsSpace(Head(s)) THEN LStrip(Tail(s))
    ELSE s

RECURSIVE RStrip(_)
RStrip(s) ==
    IF s = << >> THEN << >>
    ELSE IF IsSpace(s[Len(s)]) THEN RStrip(SubSeq(s, 1, Len(s) - 1))
    ELSE s

Strip(s) == RStrip(LStrip(s))

\* df[col].notna() & (df[col].str.strip() != "")
NarrativeMask(r) == (~r.narr.isna) /\ (Strip(r.narr.s) # << >>)

\* (df["Date received"] >= start) & (df["Date received"] <= end); NaT compares False
DateMask(r, start, end) ==
    /\ r.date # NaT
    /\ r.date >= start
    /\ r.date <= end

\* ~df["Product"].isin(self.credit_exclusions): exact string membership
ProductMaskAnyCase(r) ==
    LET Capitalized(p) == IF p = "credit reporting" THEN "Credit reporting" ELSE p
    IN  Capitalized(r.product) \notin credit_exclusions

ProductMask(r) == r.product \notin credit_exclusions

\* df.drop(columns=[NARRATIVE]): the cells of the column go with it
DropNarrative(rs) == [i \in 1..Len(rs) |-> [rs[i] EXCEPT !.narr = NaN]]

\* a frame that has no "Product" or no "Date received" column
DropProduct(rs) == [i \in 1..Len(rs) |-> [rs[i] EXCEPT !.product = ""]]
DropDate(rs) == [i \in 1..Len(rs) |-> [rs[i] EXCEPT !.date = NaT]]

\* the exception _apply_filters raises on the frame, "none" if it raises none:
\* df["Date received"] and df["Product"] raise KeyError on a frame that has
\* rows but not the column; between the two, outside lite mode, .str raises
\* AttributeError on a narrative column of dtype float64 (a frame records the
\* dtype of that column when it is not object)
ApplyFiltersRaises(df, lite) ==
    CASE df.rows = << >> -> "none"
      [] DATE \notin df.cols -> "KeyError"
      [] /\ ~lite
         /\ NARRATIVE \in df.cols
         /\ "dtype" \in DOMAIN df
         /\ df.dtype = "float64" -> "AttributeError"
      [] PRODUCT \notin df.cols -> "KeyError"
      [] OTHER -> "none"

\* SearchAPIRealDataFetcher._apply_filters
ApplyFiltersDropsLast(df, start, end, lite) ==
    IF df.rows = << >> THEN df
    ELSE
      LET useNarr == (~lite) /\ (NARRATIVE \in df.cols)
          Keep(r) == /\ DateMask(r, start, end)
                     /\ (useNarr => NarrativeMask(r))
          masked == SelectSeq(df.rows, Keep)
          kept == SelectSeq(masked, ProductMask)
          cut == SubSeq(kept, 1, Len(kept) - 1)
      IN  IF lite /\ NARRATIVE \in df.cols
          THEN [cols |-> df.cols \ {NARRATIVE}, rows |-> DropNarrative(cut)]
          ELSE [cols |-> df.cols, rows |-> cut]

ApplyFilters(df, start, end, lite) ==
    IF df.rows = << >> THEN df
    ELSE
      LET useNarr == (~lite) /\ (NARRATIVE \in df.cols)
          Keep(r) == /\ DateMask(r, start, end)
                     /\ (useNarr => NarrativeMask(r))
          masked == SelectSeq(df.rows, Keep)
          kept == SelectSeq(masked, ProductMask)
      IN  IF lite /\ NARRATIVE \in df.cols
          THEN [cols |-> df.cols \ {NARRATIVE}, rows |-> DropNarrative(kept)]
          ELSE [cols |-> df.cols, rows |-> kept]

\* The inline filter of RealDataFetcher.load_and_filter_data: the narrative
\* mask is applied whenever the column exists, lite mode or not
LiteFilter(df, start, end) ==
    LET Keep(r) == /\ DateMask(r, start, end)
                   /\ (NARRATIVE \in df.cols => NarrativeMask(r))
                   /\ (PRODUCT \in df.cols => ProductMask(r))
    IN  [cols |-> df.cols, rows |-> SelectSeq(df.rows, Keep)]

-----------------------------------------------------------------------------
(* Construction *)

\* max(1, min(int(months), cap))
ClampMonthsNoFloor(m, cap) == Min2(m, cap)

ClampMonths(m, cap) == Max2(MinMonths, Min2(m, cap))

MonthsCap(f) == IF f = "search" THEN SearchMaxMonths ELSE LiteMaxMonths

\* try: months = int(os.environ.get("MONTHS_WINDOW", ...)) except ValueError:
\* the default of the class
ConfiguredMonths(f, e, m) ==
    IF e.parses THEN m
    ELSE IF f = "lite" THEN LiteDefaultMonths ELSE MacDefaultMonths

\* self.start_date = self.end_date - timedelta(days=30 * months)
WindowStart(f, m) == Now - Days(DaysPerMonth * ClampMonths(m, MonthsCap(f)))

\* the lower case of the ASCII letters (str.lower(), re.IGNORECASE)
LowerOf ==
    [A |-> "a", B |-> "b", C |-> "c", D |-> "d", E |-> "e", F |-> "f", G |-> "g",
     H |-> "h", I |-> "i", J |-> "j", K |-> "k", L |-> "l", M |-> "m", N |-> "n",
     O |-> "o", P |-> "p", Q |-> "q", R |-> "r", S |-> "s", T |-> "t", U |-> "u",
     V |-> "v", W |-> "w", X |-> "x", Y |-> "y", Z |-> "z"]

\* the letter a character stands for when re.IGNORECASE compares it: the
\* lower case of an ASCII letter, and the case folding of the characters
\* that match an ASCII letter besides its two cases: U+0130 and U+0131
\* match "i", U+017F matches "s", U+212A matches "k"
LowerChar(c) ==
    CASE c \in DOMAIN LowerOf       -> LowerOf[c]
      [] c \in {"u0130", "u0131"}   -> "i"
      [] c = "u017f"                -> "s"
      [] c = "u212a"                -> "k"
      [] OTHER                      -> c

\* str.lower() of a text, a sequence of characters: U+0130 becomes "i"
\* followed by U+0307, U+212A becomes "k", U+0131 and U+017F stay
RECURSIVE Lower(_)
Lower(s) ==
    IF s = << >> THEN << >>
    ELSE (CASE Head(s) \in DOMAIN LowerOf -> << LowerOf[Head(s)] >>
            [] Head(s) = "u0130"          -> << "i", "u0307" >>
            [] Head(s) = "u212a"          -> << "k" >>
            [] OTHER                      -> << Head(s) >>) \o Lower(Tail(s))

\* str(os.environ.get("LITE_MODE", ...)).lower() in ("1", "true", "yes")
ParseLiteMode(s) ==
    Lower(s) \in {<< "1" >>, << "t", "r", "u", "e" >>, << "y", "e", "s" >>}

\* SupabaseDataManager.__init__: raises ValueError without both credentials
ManagerInitRaises(e) == ~e.creds

\* the try/except around SupabaseDataManager() in SearchAPIRealDataFetcher.__init__
ConstructSearchUnguarded(e) ==
    IF e.use_cache_arg /\ e.available
    THEN IF ManagerInitRaises(e)
         THEN [raised |-> TRUE, use_cache |-> TRUE, manager |-> FALSE]
         ELSE [raised |-> FALSE, use_cache |-> TRUE, manager |-> TRUE]
    ELSE [raised |-> FALSE, use_cache |-> FALSE, manager |-> FALSE]

ConstructSearch(e) ==
    IF e.use_cache_arg /\ e.available
    THEN IF ManagerInitRaises(e)
         THEN [raised |-> FALSE, use_cache |-> FALSE, manager |-> FALSE]
         ELSE [raised |-> FALSE, use_cache |-> TRUE, manager |-> TRUE]
    ELSE [raised |-> FALSE, use_cache |-> FALSE, manager |-> FALSE]

-----------------------------------------------------------------------------
(* The Supabase cache *)

\* f"{date:%Y-%m-%d}": the day of a datetime, as the tick of its midnight
DayStart(t) == (t \div TicksPerDay) * TicksPerDay

\* the query of get_cached_complaints: gte/lte on date_received, then limit
RemoteQuery(table, start, end, limit) ==
    LET InRange(row) == /\ row.date >= DayStart(start)
                        /\ row.date <= DayStart(end)
        matching == SelectSeq(table, InRange)
    IN  SubSeq(matching, 1, Min2(Len(matching), Max2(limit, 0)))

FrameRow(row) ==
    [id |-> row.id, date |-> row.date, product |-> row.product, narr |-> row.narr]

\* SupabaseDataManager.get_cached_complaints; ok = FALSE when the client raises
GetCachedComplaints(table, ok, start, end, limit) ==
    LET data == RemoteQuery(table, start, end, limit)
    IN  IF ~ok \/ data = << >>
        THEN EmptyFrame
        ELSE [cols |-> AllCols, rows |-> [i \in 1..Len(data) |-> FrameRow(data[i])]]

\* upsert of the record built from the row r of a frame with the columns
\* cols, keyed by complaint_id, updated_at = now. The column date_received is
\* a date: the time of day of the value is not stored. complaint_text is
\* row.get("Consumer complaint narrative", ""): the cell, or the empty string
\* when the frame has no such column
UpsertOneAppends(table, r, cols) ==
    Append(table, [id |-> r.id, date |-> IF r.date = NaT THEN NaT ELSE DayStart(r.date),
                   product |-> r.product,
                   narr |-> IF NARRATIVE \in cols THEN r.narr ELSE Str(<< >>),
                   age |-> 0])

UpsertOne(table, r, cols) ==
    LET new == [id |-> r.id, date |-> IF r.date = NaT THEN NaT ELSE DayStart(r.date),
                product |-> r.product,
                narr |-> IF NARRATIVE \in cols THEN r.narr ELSE Str(<< >>),
                age |-> 0]
        at == {i \in 1..Len(table) : table[i].id = r.id}
    IN  IF at = {} THEN Append(table, new)
        ELSE [i \in 1..Len(table) |-> IF i \in at THEN new ELSE table[i]]

\* the records of a frame are upserted in the order of its rows
RECURSIVE Upsert(_, _, _)
Upsert(table, rs, cols) ==
    IF rs = << >> THEN table
    ELSE Upsert(UpsertOne(table, Head(rs), cols), Tail(rs), cols)

-----------------------------------------------------------------------------
(* The search API and the pagination controller _page *)

\* max_offset = min(10000, self.max_records)
MaxOffset(mr) == Min2(ApiMaxOffset, mr)

\* if frm >= max_offset or total_yielded >= self.max_records: break
PageStops(f, ty, mr) == f >= MaxOffset(mr) \/ ty >= mr

\* "size": min(size, self.max_records - total_yielded)
RequestSizeWholeBudget(sz, mr, ty) == mr - ty

RequestSizeUnadjusted(sz, mr, ty) == sz

RequestSize(sz, mr, ty) == Min2(sz, mr - ty)

\* after the yield: if len(hits) < size or total_yielded >= self.max_records: break
PageEnds(n, sz, ty, mr) == n < sz \/ ty >= mr

\* The records the provider holds are given by a pattern of two kinds that
\* repeats; the record at offset i carries complaint id i
KindRec(k, i, start, end) ==
    CASE k = "good"   -> [id |-> i, date |-> start, product |-> "Mortgage",
                          narr |-> Str(<< " ", "a" >>)]
      [] k = "late"   -> [id |-> i, date |-> end, product |-> "credit reporting",
                          narr |-> Str(<< "a" >>)]
      [] k = "old"    -> [id |-> i, date |-> start - 1, product |-> "Mortgage",
                          narr |-> Str(<< "a" >>)]
      [] k = "credit" -> [id |-> i, date |-> end, product |-> "Credit reporting",
                          narr |-> Str(<< "a" >>)]
      [] k = "blank"  -> [id |-> i, date |-> end, product |-> "Mortgage",
                          narr |-> Str(<< " " >>)]
      [] k = "nonarr" -> [id |-> i, date |-> start, product |-> "Mortgage",
                          narr |-> NaN]
      [] k = "other"  -> [id |-> i, date |-> start, product |-> "Other personal consumer reports",
                          narr |-> Str(<< "a" >>)]
      [] k = "newer"  -> [id |-> i, date |-> end,
                          product |-> "Credit reporting or other personal consumer reports",
                          narr |-> Str(<< "a" >>)]
      [] OTHER        -> [id |-> i, date |-> NaT, product |-> "Mortgage",
                          narr |-> Str(<< "a" >>)]

\* the complaint at offset i of the provider's result list; a "repeating"
\* provider's list has moved down by one between the first request and the
\* later ones, so that a later page starts with the last hit of the page
\* before it
ProvId(i) == IF provider.mode = "repeating" /\ i >= size THEN i - 1 ELSE i

ProvRec(i) ==
    KindRec(provider.pattern[(ProvId(i) % 2) + 1], ProvId(i), start_date, end_date)

\* what the provider still holds from offset f on
Available(f) == Max2(0, provider.total - f)

\* the hits of a page of n records starting at offset f
HitsAt(f, n) == [i \in 1..n |-> ProvRec(f + i - 1)]

\* row_data of one hit: the narrative only when not in lite mode
RowData(h, lite) == IF lite THEN [h EXCEPT !.narr = NaN] ELSE h

\* for h in hits: if len(rows) >= max_records: truncated = True; break
\* the number of hits of one page the inner loop appends before it breaks
Taken(rs, hs, mr) == Min2(Len(hs), Max2(0, mr - Len(rs)))

\* the rows after the inner loop over one page
AppendHits(rs, hs, mr, lite) ==
    rs \o [i \in 1..Taken(rs, hs, mr) |-> RowData(hs[i], lite)]

\* whether the inner loop over one page sets truncated: a hit is left over
HitsTruncate(rs, hs, mr) == Len(hs) > Taken(rs, hs, mr)

-----------------------------------------------------------------------------
(* The local files of RealDataFetcher and CFPBRealDataFetcher *)

\* Series.min() and Series.max() of the date column: NaT cells are skipped,
\* and the result is NaT when no cell holds a date
MinDate(rs) ==
    LET dated == {rs[i].date : i \in 1..Len(rs)} \ {NaT}
    IN  IF dated = {} THEN NaT ELSE CHOOSE d \in dated : \A e \in dated : d <= e

MaxDate(rs) ==
    LET dated == {rs[i].date : i \in 1..Len(rs)} \ {NaT}
    IN  IF dated = {} THEN NaT ELSE CHOOSE d \in dated : \A e \in dated : d >= e

\* cache_age.days < 7
CacheFreshInclusive(file) == TimedeltaDays(file.age) <= FreshDays

CacheFresh(file) == TimedeltaDays(file.age) < FreshDays

\* cache_start <= self.start_date and cache_end >= self.end_date - timedelta(days=7)
\* (min and max of an empty column are NaT, which compares False)
CacheCovers(file, start, end) ==
    /\ MinDate(file.rows) # NaT
    /\ MinDate(file.rows) <= start
    /\ MaxDate(file.rows) >= end - Days(ToleranceDays)

\* the whole test that lets load_and_filter_data return the cached file
LocalCacheUsable(file, start, end) ==
    /\ file.exists
    /\ CacheFresh(file)
    /\ file.readable
    /\ CacheCovers(file, start, end)

NoFile == [exists |-> FALSE, age |-> 0, readable |-> FALSE, cols |-> {}, rows |-> << >>]
FreshFile(cols, rs) ==
    [exists |-> TRUE, age |-> 0, readable |-> TRUE, cols |-> cols, rows |-> rs]

\* A large file or frame is given as a block of rows and the number of times
\* the block is repeated in it
Copies(f) == IF "copies" \in DOMAIN f THEN f.copies ELSE 1
WithCopies(f, n) == IF n = 1 THEN f ELSE f @@ [copies |-> n]

-----------------------------------------------------------------------------
(* Inputs *)

MonthsInputs == {0, 2, 5, 13}
LiteModeInputs == {<< "1" >>, << "0" >>, << "T", "r", "u", "e" >>}

\* the environment of a construction: the use_cache argument, whether the
\* supabase module imports, whether both credentials are set, LITE_MODE, and
\* whether the configured month count is the text of an integer
EnvOf(k, lm) ==
    [use_cache_arg |-> k # "no_arg", available |-> k # "no_import",
     creds |-> k # "no_creds", LITE_MODE |-> lm, parses |-> TRUE]

\* the same with a month count that int() rejects
EnvUnparsed(k, lm) == [EnvOf(k, lm) EXCEPT !.parses = FALSE]

\* rows of the remote table, placed relative to the window
RemoteRow(k, i, start, end) ==
    CASE k = "fresh_end"   -> [id |-> i, date |-> DayStart(end), product |-> "Mortgage",
                               narr |-> Str(<< "a" >>), age |-> 0]
      [] k = "stale_end"   -> [id |-> i, date |-> DayStart(end), product |-> "Mortgage",
                               narr |-> Str(<< "a" >>), age |-> Days(FreshDays + 1)]
      [] k = "fresh_start" -> [id |-> i, date |-> DayStart(start), product |-> "Mortgage",
                               narr |-> Str(<< "a" >>), age |-> 0]
      [] k = "partial"     -> [id |-> i, date |-> DayStart(end) - Days(ToleranceDays + 3),
                               product |-> "Mortgage", narr |-> Str(<< "a" >>), age |-> 0]
      [] k = "credit"      -> [id |-> i, date |-> DayStart(end), product |-> "Credit reporting",
                               narr |-> Str(<< "a" >>), age |-> 0]
      [] OTHER             -> [id |-> i, date |-> DayStart(start) - Days(1),
                               product |-> "Mortgage", narr |-> Str(<< "a" >>), age |-> 0]

RemoteKinds == {"fresh_end", "stale_end", "fresh_start", "partial", "credit", "outside"}

RemoteTables(start, end) ==
    {<< >>}
    \cup {<< RemoteRow(k, 0, start, end) >> : k \in RemoteKinds}
    \cup {<< RemoteRow("fresh_start", 0, start, end), RemoteRow(k, 1, start, end) >> :
             k \in RemoteKinds}

ProviderPatterns ==
    { << "good", "good" >>, << "good", "old" >>, << "credit", "blank" >>,
      << "nonarr", "late" >> }

SmallProviders ==
    [pattern : ProviderPatterns, total : 0..MaxTotal, mode : {"faithful", "flaky", "greedy"}]

\* providers for the runs that page more than once at the sizes of the program
BigProviders ==
    [pattern : {<< "good", "credit" >>}, total : {300, 2500, 13000}, mode : {"faithful"}]
    \cup [pattern : {<< "good", "credit" >>}, total : {2500}, mode : {"flaky"}]
    \cup [pattern : {<< "good", "good" >>}, total : {2500}, mode : {"repeating"}]

ProvidersFor(mr) == IF mr > MaxTotal THEN BigProviders ELSE SmallProviders

NoProvider == [pattern |-> << "good", "good" >>, total |-> 0, mode |-> "unset"]

\* values of the variables a run does not use
IdleFilter ==
    /\ batch = EmptyFrame
    /\ once = EmptyFrame
    /\ twice = EmptyFrame

IdleFiles ==
    /\ cache_file = NoFile
    /\ csv_file = NoFile

IdleAnalyzer ==
    /\ filtered_df = None
    /\ harm_i = 0
    /\ by_mechanism = << >>
    /\ harm_summary = << >>
    /\ harm_categories = << >>

Fresh ==
    /\ pc = "new"
    /\ written = << >>
    /\ fetcher # "supabase" => pending = << >>
    /\ entry # "protocol" => (calls = << >> /\ self_df = None)
    /\ fetcher # "gui" => gui = None
    /\ fetcher # "trend" => trend_df = None
    /\ fetcher \notin {"lite", "mac"} =>
          run = [n |-> 1, elapsed |-> 0, more |-> FALSE, wrote |-> FALSE]
    /\ chunks = << >>
    /\ warnings = {}
    /\ start_date = 0
    /\ end_date = 0
    /\ lite_mode = FALSE
    /\ use_cache = FALSE
    /\ supabase_manager = FALSE
    /\ remote_status = [read |-> "none", write |-> "none"]
    /\ provider = NoProvider
    /\ frm = 0
    /\ total_yielded = 0
    /\ warned = FALSE
    /\ hits = << >>
    /\ requests = << >>
    /\ pages = << >>
    /\ rows = << >>
    /\ truncated = FALSE
    /\ consulted = << >>
    /\ served = ""
    /\ result = None

\* SearchAPIRealDataFetcher(months, max_records, use_cache).load_and_filter_data()
InitSearchLoad ==
    /\ fetcher = "search"
    /\ entry = "load_and_filter_data"
    /\ months_in \in MonthsInputs
    /\ \/ \E lm \in LiteModeInputs, k \in {"no_arg", "no_import", "no_creds", "cache"} :
             /\ env = EnvOf(k, lm)
             /\ remote_table \in
                   IF k = "cache"
                   THEN RemoteTables(WindowStart("search", months_in), Now)
                   ELSE {<< >>}
       \/ /\ months_in = 2
          /\ env \in {EnvUnparsed(k, "1") : k \in {"no_arg", "cache"}}
          /\ remote_table = << >>
    /\ max_records \in (0..(MaxTotal - 1))
                        \cup (IF env.use_cache_arg THEN {} ELSE {250, 2500, 12000})
    /\ size = DefaultPageSize
    /\ Fresh /\ IdleAnalyzer /\ IdleFilter /\ IdleFiles

\* a direct walk of SearchAPIRealDataFetcher._page(size)
InitSearchPage ==
    /\ fetcher = "search"
    /\ entry = "_page"
    /\ months_in = 2
    /\ env = EnvOf("no_arg", << "1" >>)
    /\ remote_table = << >>
    /\ \E sm \in ((1..2) \X (0..MaxTotal)) \cup {<< 100, 250 >>, << 5000, 12000 >>} :
          /\ size = sm[1]
          /\ max_records = sm[2]
    /\ Fresh /\ IdleAnalyzer /\ IdleFilter /\ IdleFiles

-----------------------------------------------------------------------------
(* SearchAPIRealDataFetcher *)

searchVars == << size, frm, total_yielded, warned, hits, requests, pages,
                 rows, truncated >>
fileVars == << cache_file, csv_file, warnings >>
filterVars == << batch, once, twice >>
analyzerVars == << filtered_df, harm_i, by_mechanism, harm_summary, harm_categories >>
inputVars == << fetcher, entry, months_in, env, max_records, analyzerVars, chunks,
               pending, written, run, calls, self_df, gui, trend_df >>
cfgVars == << inputVars, start_date, end_date, lite_mode, use_cache,
              supabase_manager, remote_table, remote_status, provider >>

\* SearchAPIRealDataFetcher.__init__; int(months) of line 32 raises ValueError
\* on a value that is not the text of an integer
SearchConstruct ==
    /\ pc = "new"
    /\ fetcher = "search"
    /\ IF ~env.parses
       THEN /\ pc' = "raised"
            /\ result' = RaisedWith("ValueError")
            /\ UNCHANGED << start_date, end_date, lite_mode, use_cache,
                            supabase_manager, provider, consulted, served >>
       ELSE /\ end_date' = Now
            /\ start_date' = WindowStart("search", months_in)
            /\ lite_mode' = ParseLiteMode(env.LITE_MODE)
            /\ LET c == ConstructSearch(env)
               IN  /\ use_cache' = c.use_cache
                   /\ supabase_manager' = c.manager
                   /\ IF c.raised
                      THEN /\ pc' = "done"
                           /\ result' = Raised
                           /\ served' = "failed"
                           /\ provider' = provider
                           /\ consulted' = consulted
                      ELSE IF entry = "_page"
                      THEN /\ pc' = "page_loop"
                           /\ provider' \in ProvidersFor(max_records)
                           /\ consulted' = << "api" >>
                           /\ UNCHANGED << result, served >>
                      ELSE /\ pc' = IF entry = "_apply_filters" THEN "filter"
                                    ELSE "start"
                           /\ UNCHANGED << result, served, provider, consulted >>
    /\ UNCHANGED << inputVars, remote_table, remote_status, searchVars,
                    fileVars, filterVars >>

\* load_and_filter_data, lines 108-122: the Supabase cache is tried first;
\* ok = FALSE when the read raises inside get_cached_complaints
SearchCheckRemote ==
    /\ pc = "start"
    /\ fetcher = "search"
    /\ IF use_cache /\ supabase_manager
       THEN \E ok \in BOOLEAN :
              LET cached_df == GetCachedComplaints(remote_table, ok, start_date,
                                                   end_date, max_records)
              IN  /\ consulted' = Append(consulted, "remote")
                  /\ IF cached_df.rows # << >>
                     THEN /\ remote_status' = [remote_status EXCEPT !.read = "hit"]
                          /\ result' = Table(ApplyFilters(cached_df, start_date,
                                                          end_date, lite_mode))
                          /\ served' = "remote"
                          /\ pc' = "done"
                          /\ provider' = provider
                     ELSE /\ remote_status' =
                               [remote_status EXCEPT !.read = IF ok THEN "miss" ELSE "error"]
                          /\ pc' = "api"
                          /\ UNCHANGED << result, served, provider >>
       ELSE /\ remote_status' = [remote_status EXCEPT !.read = "skipped"]
            /\ pc' = "api"
            /\ UNCHANGED << result, served, provider, consulted >>
    /\ UNCHANGED << inputVars, start_date, end_date, lite_mode, use_cache,
                    supabase_manager, remote_table, searchVars, fileVars, filterVars >>

\* load_and_filter_data, lines 124-131: rows = [], truncated = False and the
\* first step into the generator; the provider is whatever the API holds then
SearchStartApi ==
    /\ pc = "api"
    /\ provider' \in ProvidersFor(max_records)
    /\ consulted' = Append(consulted, "api")
    /\ rows' = << >>
    /\ truncated' = FALSE
    /\ pc' = "page_loop"
    /\ UNCHANGED << inputVars, start_date, end_date, lite_mode, use_cache,
                    supabase_manager, remote_table, remote_status, size, frm,
                    total_yielded, warned, hits, requests, pages, fileVars,
                    filterVars, served, result >>

\* the request _page is about to issue
NextRequest == [frm |-> frm, size |-> RequestSize(size, max_records, total_yielded)]

\* the numbers of hits the provider may answer the next request with
HitCounts ==
    LET full == Min2(NextRequest.size, Available(frm))
    IN  CASE provider.mode \in {"faithful", "repeating"} -> {full}
          [] provider.mode = "flaky"    -> {full, Max2(0, full - 1)}
          [] OTHER                      -> {Min2(NextRequest.size + 1, Available(frm))}

runVars == << inputVars, start_date, end_date, lite_mode, use_cache,
              supabase_manager, remote_table, remote_status, provider,
              fileVars, filterVars >>

\* _page, lines 67-71: the offset ceiling or the record budget is reached
PageStop ==
    /\ pc = "page_loop"
    /\ PageStops(frm, total_yielded, max_records)
    /\ warned' = TRUE
    /\ pc' = "after_loop"
    /\ UNCHANGED << runVars, size, frm, total_yielded, hits, requests, pages,
                    rows, truncated, consulted, served, result >>

\* _page, lines 83-86: the provider answers 400, paging stops without an error
Page400 ==
    /\ pc = "page_loop"
    /\ ~PageStops(frm, total_yielded, max_records)
    /\ provider.mode = "flaky"
    /\ requests' = Append(requests, NextRequest @@ [status |-> 400])
    /\ pc' = "after_loop"
    /\ UNCHANGED << runVars, size, frm, total_yielded, warned, hits, pages,
                    rows, truncated, consulted, served, result >>

\* _page, lines 83-88: requests.get raises, raise_for_status raises HTTPError,
\* or r.json() fails; load_and_filter_data (lines 154-161) returns None for
\* both kinds, a direct caller of _page sees the exception
PageError ==
    /\ pc = "page_loop"
    /\ ~PageStops(frm, total_yielded, max_records)
    /\ provider.mode = "flaky"
    /\ \E kind \in {"HTTPError", "Exception"} :
          requests' = Append(requests, NextRequest @@ [failed |-> kind])
    /\ pc' = "done"
    /\ served' = "failed"
    /\ result' = IF entry = "_page" THEN Raised ELSE None
    /\ UNCHANGED << runVars, size, frm, total_yielded, warned, hits, pages,
                    rows, truncated, consulted >>

\* _page, lines 89-91: an empty page ends the generator
PageEmpty ==
    /\ pc = "page_loop"
    /\ ~PageStops(frm, total_yielded, max_records)
    /\ 0 \in HitCounts
    /\ requests' = Append(requests, NextRequest)
    /\ pc' = "after_loop"
    /\ UNCHANGED << runVars, size, frm, total_yielded, warned, hits, pages,
                    rows, truncated, consulted, served, result >>

\* _page, line 92: a page of n hits is yielded
PageYield ==
    /\ pc = "page_loop"
    /\ ~PageStops(frm, total_yielded, max_records)
    /\ \E n \in HitCounts \ {0} :
          /\ hits' = HitsAt(frm, n)
          /\ pages' = Append(pages, n)
    /\ requests' = Append(requests, NextRequest)
    /\ pc' = "page_yield"
    /\ UNCHANGED << runVars, size, frm, total_yielded, warned, rows, truncated,
                    consulted, served, result >>

\* The consumer takes the page (load_and_filter_data, lines 131-151, or a
\* plain for loop over _page) and, unless it broke out, steps the generator
\* on (lines 93-96)
ConsumePage ==
    /\ pc = "page_yield"
    /\ LET load == entry = "load_and_filter_data"
           trunc == load /\ HitsTruncate(rows, hits, max_records)
           ty == total_yielded + Len(hits)
       IN  /\ rows' = IF load THEN AppendHits(rows, hits, max_records, lite_mode)
                      ELSE rows
           /\ truncated' = (truncated \/ trunc)
           /\ IF trunc
              THEN /\ pc' = "after_loop"
                   /\ UNCHANGED << total_yielded, frm >>
              ELSE /\ total_yielded' = ty
                   /\ IF PageEnds(Len(hits), size, ty, max_records)
                      THEN /\ pc' = "after_loop"
                           /\ frm' = frm
                      ELSE /\ pc' = "page_loop"
                           /\ frm' = frm + size
    /\ hits' = << >>
    /\ UNCHANGED << runVars, size, warned, requests, pages, consulted, served,
                    result >>

\* a direct walk of _page has ended
PageDone ==
    /\ pc = "after_loop"
    /\ entry = "_page"
    /\ pc' = "done"
    /\ served' = "api"
    /\ result' = [kind |-> "pages"]
    /\ UNCHANGED << runVars, searchVars, consulted >>

\* load_and_filter_data, lines 163-165: nothing was loaded
SearchNoRows ==
    /\ pc = "after_loop"
    /\ entry = "load_and_filter_data"
    /\ rows = << >>
    /\ pc' = "done"
    /\ served' = "failed"
    /\ result' = None
    /\ UNCHANGED << runVars, searchVars, consulted >>

\* the DataFrame of lines 167-182
RowsFrame(rs, mr, lite) ==
    [cols |-> IF lite THEN {DATE, PRODUCT} ELSE AllCols,
     rows |-> IF Len(rs) > mr THEN SubSeq(rs, 1, mr) ELSE rs]

\* load_and_filter_data, lines 167-193: build the frame, write it to Supabase
\* (the write may fail and is swallowed), filter and return
SearchFinish ==
    /\ pc = "after_loop"
    /\ entry = "load_and_filter_data"
    /\ rows # << >>
    /\ LET df == RowsFrame(rows, max_records, lite_mode)
       IN  /\ truncated' = (truncated \/ Len(rows) > max_records)
           /\ IF use_cache /\ supabase_manager /\ df.rows # << >>
              THEN \E ok \in BOOLEAN :
                     /\ remote_table' = IF ok THEN Upsert(remote_table, df.rows, df.cols)
                                        ELSE remote_table
                     /\ remote_status' =
                          [remote_status EXCEPT !.write = IF ok THEN "ok" ELSE "failed"]
              ELSE UNCHANGED << remote_table, remote_status >>
           /\ result' = Table(ApplyFilters(df, start_date, end_date, lite_mode))
    /\ pc' = "done"
    /\ served' = "api"
    /\ UNCHANGED << inputVars, start_date, end_date, lite_mode, use_cache,
                    supabase_manager, provider, fileVars, filterVars, size, frm,
                    total_yielded, warned, hits, requests, pages, rows, consulted >>

-----------------------------------------------------------------------------
(* RealDataFetcher (lite) and CFPBRealDataFetcher (mac) *)

CacheRow(i, d) == [id |-> i, date |-> d, product |-> "Mortgage", narr |-> Str(<< "a" >>)]

\* contents of the filtered cache file: the earliest and latest dates matter
CacheRowSets(start, end) ==
    LET lows == {start - 1, start, start + 1}
        highs == {end - Days(ToleranceDays + 3), end - Days(ToleranceDays) - 1,
                  end - Days(ToleranceDays), end}
    IN  {<< >>, << CacheRow(0, start) >>, << CacheRow(0, NaT) >>,
         << CacheRow(0, NaT), CacheRow(1, end) >>}
        \cup {<< CacheRow(0, lo), CacheRow(1, hi) >> : lo \in lows, hi \in highs}
        \cup {<< CacheRow(0, hi), CacheRow(1, lo) >> : lo \in lows, hi \in highs}

CacheAges == {0, Days(FreshDays) - 1, Days(FreshDays), Days(FreshDays + 1)}

CacheFiles(start, end) ==
    {NoFile}
    \cup {[exists |-> TRUE, age |-> a, readable |-> TRUE, cols |-> AllCols, rows |-> rs] :
             a \in CacheAges, rs \in CacheRowSets(start, end)}
    \cup {[exists |-> TRUE, age |-> a, readable |-> FALSE, cols |-> {}, rows |-> << >>] :
             a \in CacheAges}

\* contents of the bulk archive
BulkFrames(start, end) ==
    LET K(k, i) == KindRec(k, i, start, end)
    IN  [cols : {AllCols, {DATE, PRODUCT}},
         rows : {<< >>,
                 << K("good", 0), K("old", 1), K("late", 2) >>,
                 << K("credit", 0), K("blank", 1), K("nonarr", 2) >>,
                 << K("nonarr", 0) >>,
                 << K("blank", 0), K("late", 1) >>,
                 << K("other", 0), K("newer", 1) >>}]
        \cup {[cols |-> {DATE, NARRATIVE},
               rows |-> DropProduct(<< K("good", 0), K("old", 1), K("blank", 2) >>)],
              [cols |-> {PRODUCT, NARRATIVE},
               rows |-> DropDate(<< K("good", 0), K("credit", 1), K("blank", 2) >>)]}

CsvOf(df, a) ==
    [exists |-> TRUE, age |-> a, readable |-> TRUE, cols |-> df.cols, rows |-> df.rows]
UnreadableCsv == [exists |-> TRUE, age |-> 0, readable |-> FALSE, cols |-> {}, rows |-> << >>]

\* zip_ref.extractall(self.data_dir) that raises on the way: complaints.csv
\* has already been replaced. When a later member of the archive fails it is
\* whole; when the member itself fails it holds the rows written so far, and
\* after them mostly a cut row, the beginning of the next one. The cells of a
\* row come in the order Date received, Product, Consumer complaint
\* narrative, Complaint ID. read_csv gives the cells after the cut as NaN (the
\* Complaint ID is always among them: 0 - 1 stands for the missing one) and
\* the cell at the cut as the beginning of its text: of a narrative, of a
\* product name, or of a date, which either still reads as a day (an earlier
\* one of the month, 2024-01-1 for 2024-01-15) or makes pd.to_datetime raise
\* (the file is marked bad_date). A cut inside a quoted cell makes read_csv
\* raise (UnreadableCsv).
CutCsvFiles(start, end) ==
    LET Begin(p) ==
            CASE p = "Mortgage" -> {"Mort"}
              [] p \in {"Credit reporting", "Credit repair services"} -> {"Credit"}
              [] p = "credit reporting" -> {"credit"}
              [] p = "Other personal consumer reports" -> {"Other"}
              [] p = "Credit reporting or other personal consumer reports" ->
                    {"Credit", "Credit reporting"}
              [] OTHER -> {}
        gone(r) == [id |-> 0 - 1, date |-> r.date, product |-> "", narr |-> NaN]
        \* the rows a cut of the row r can leave, and whether the date is bad
        Cuts(r, cols) ==
            {<< [r EXCEPT !.id = 0 - 1], FALSE >>}
            \cup (IF NARRATIVE \in cols /\ ~r.narr.isna
                  THEN {<< [r EXCEPT !.id = 0 - 1,
                                     !.narr = IF k = 0 THEN NaN ELSE Str(SubSeq(r.narr.s, 1, k))],
                           FALSE >> : k \in 0..(Len(r.narr.s) - 1)}
                  ELSE {})
            \cup (IF PRODUCT \in cols
                  THEN {<< [gone(r) EXCEPT !.product = b], FALSE >> :
                           b \in {""} \cup Begin(r.product)}
                  ELSE {})
            \cup (IF DATE \in cols /\ r.date # NaT
                  THEN {<< [gone(r) EXCEPT !.date = DayStart(r.date) - Days(k)], FALSE >> :
                           k \in {9, 28}}
                       \cup {<< [gone(r) EXCEPT !.date = NaT], TRUE >>}
                  ELSE {})
        Whole(df) == {CsvOf([cols |-> df.cols, rows |-> SubSeq(df.rows, 1, n)], 0) :
                         n \in 0..Len(df.rows)}
        Cut(df) == UNION {{IF c[2]
                           THEN CsvOf([cols |-> df.cols,
                                       rows |-> Append(SubSeq(df.rows, 1, n - 1), c[1])], 0)
                                @@ [bad_date |-> TRUE]
                           ELSE CsvOf([cols |-> df.cols,
                                       rows |-> Append(SubSeq(df.rows, 1, n - 1), c[1])], 0) :
                              c \in Cuts(df.rows[n], df.cols)} :
                          n \in 1..Len(df.rows)}
    IN  UNION {Whole(df) \cup Cut(df) : df \in BulkFrames(start, end)}

CsvFiles(start, end) ==
    {NoFile, UnreadableCsv}
    \cup {WithCopies(CsvOf(df, 0), n) :
             df \in {[cols |-> AllCols,
                      rows |-> << KindRec("good", 0, start, end),
                                  KindRec("old", 1, start, end),
                                  KindRec("late", 2, start, end) >>]},
             n \in {BigCopies}}
    \cup {CsvOf(df, 0) : df \in BulkFrames(start, end)}
    \cup {CsvOf(df, Days(FreshDays + 1)) : df \in BulkFrames(start, end)}

InitFiles ==
    /\ fetcher \in {"lite", "mac"}
    /\ entry = "load_and_filter_data"
    /\ \/ /\ months_in \in MonthsInputs
          /\ env \in {EnvOf("no_arg", lm) : lm \in LiteModeInputs}
       \/ /\ months_in = 2
          /\ env = EnvUnparsed("no_arg", << "0" >>)
    /\ remote_table = << >>
    /\ max_records = 0
    /\ size = DefaultPageSize
    /\ LET start == WindowStart(fetcher, ConfiguredMonths(fetcher, env, months_in))
       IN  /\ cache_file \in CacheFiles(start, Now)
           /\ csv_file \in CsvFiles(start, Now)
    /\ run \in {[n |-> 1, elapsed |-> 0, more |-> b, wrote |-> FALSE] :
                   b \in IF cache_file = NoFile /\ months_in = 2 /\ env.parses
                         THEN BOOLEAN ELSE {FALSE}}
    /\ Fresh /\ IdleAnalyzer /\ IdleFilter

fileRunVars == << inputVars, start_date, end_date, lite_mode, use_cache,
                  supabase_manager, remote_table, remote_status, provider,
                  searchVars, filterVars >>

\* RealDataFetcher.__init__ and CFPBRealDataFetcher.__init__ (which reads no
\* LITE_MODE)
FilesConstruct ==
    /\ pc = "new"
    /\ fetcher \in {"lite", "mac"}
    /\ entry \in {"load_and_filter_data", "download_latest_data"}
    /\ end_date' = Now + run.elapsed
    /\ start_date' = WindowStart(fetcher, ConfiguredMonths(fetcher, env, months_in))
                        + run.elapsed
    /\ lite_mode' = (fetcher = "lite" /\ ParseLiteMode(env.LITE_MODE))
    /\ pc' = IF entry = "load_and_filter_data" THEN "start" ELSE "download"
    /\ UNCHANGED << inputVars, use_cache, supabase_manager, remote_table,
                    remote_status, provider, searchVars, fileVars, filterVars,
                    consulted, served, result >>

\* load_and_filter_data of both classes: the months-specific filtered cache
LocalCacheCheck ==
    /\ pc = "start"
    /\ fetcher \in {"lite", "mac"}
    /\ consulted' = Append(consulted, "local")
    /\ IF LocalCacheUsable(cache_file, start_date, end_date)
       THEN /\ result' = Table(WithCopies([cols |-> cache_file.cols, rows |-> cache_file.rows],
                                           Copies(cache_file)))
            /\ served' = "local"
            /\ pc' = "done"
       ELSE /\ pc' = "bulk"
            /\ UNCHANGED << result, served >>
    /\ UNCHANGED << fileRunVars, fileVars >>

\* create_fast_dataset(months), run in the data directory before the load
\* with the month count of the fetcher: complaints.csv is read and its rows
\* from the cutoff day on (no upper bound), with a narrative that is not NaN
\* (blank ones stay) and a product outside the four excluded ones are written
\* to complaints_filtered_{months}months.csv. Without complaints.csv it
\* returns False; a file it cannot read or index raises and writes nothing.
\* (The file written is marked with the name of its writer.)
CreateFastDataset ==
    /\ pc = "start"
    /\ fetcher \in {"lite", "mac"}
    /\ csv_file.exists /\ csv_file.readable
    /\ "bad_date" \notin DOMAIN csv_file
    /\ {DATE, NARRATIVE, PRODUCT} \subseteq csv_file.cols
    /\ LET months == ClampMonths(ConfiguredMonths(fetcher, env, months_in),
                                 MonthsCap(fetcher))
           cutoff == DayStart(end_date - Days(DaysPerMonth * months))
           Keep(r) == /\ r.date # NaT /\ r.date >= cutoff
                      /\ ~r.narr.isna
                      /\ ProductMask(r)
       IN  cache_file' = WithCopies(FreshFile(csv_file.cols,
                                              SelectSeq(csv_file.rows, Keep)),
                                    Copies(csv_file))
                            @@ [by |-> "create_fast_dataset"]
    /\ UNCHANGED << fileRunVars, csv_file, warnings, consulted, served, result, pc >>

\* _download_zip, lines 47-51: a complaints.csv younger than 7 days is reused
LiteReuseCsv ==
    /\ pc = "bulk"
    /\ fetcher = "lite"
    /\ csv_file.exists /\ TimedeltaDays(csv_file.age) < FreshDays
    /\ consulted' = Append(consulted, "bulk")
    /\ pc' = "process"
    /\ UNCHANGED << fileRunVars, fileVars, served, result >>

\* _download_zip, lines 53-79: the archive is downloaded and extracted; what
\* it holds is whatever the server serves at that moment
\* (extractall replaces complaints.csv only when the archive has a member of
\* that name; without one the file on disk stays as it was, and line 122 goes
\* on with it if it exists and returns None if not)
LiteDownload ==
    /\ pc = "bulk"
    /\ fetcher = "lite"
    /\ ~(csv_file.exists /\ TimedeltaDays(csv_file.age) < FreshDays)
    /\ consulted' = Append(consulted, "bulk")
    /\ \/ /\ csv_file' \in {CsvOf(df, 0) : df \in BulkFrames(start_date, end_date)}
                             \cup {UnreadableCsv}
          /\ pc' = "process"
          /\ UNCHANGED << served, result >>
       \/ /\ csv_file' = csv_file
          /\ IF csv_file.exists
             THEN /\ pc' = "process"
                  /\ UNCHANGED << served, result >>
             ELSE /\ pc' = "done"
                  /\ served' = "failed"
                  /\ result' = None
    /\ UNCHANGED << fileRunVars, cache_file, warnings >>

\* _download_zip, lines 81-83, and load_and_filter_data, lines 122-124: the
\* request, the archive or the extraction raises. An extraction that fails on
\* the way has already replaced complaints.csv: with the whole member when a
\* later member of the archive fails, with the rows written so far and mostly
\* the beginning of the next one when the member itself fails
LiteDownloadFails ==
    /\ pc = "bulk"
    /\ fetcher = "lite"
    /\ ~(csv_file.exists /\ TimedeltaDays(csv_file.age) < FreshDays)
    /\ consulted' = Append(consulted, "bulk")
    /\ csv_file' \in {csv_file, UnreadableCsv} \cup CutCsvFiles(start_date, end_date)
    /\ pc' = "done"
    /\ served' = "failed"
    /\ result' = None
    /\ UNCHANGED << fileRunVars, cache_file, warnings >>

\* CFPBRealDataFetcher.load_and_filter_data, lines 150-155: local file only
MacFindCsv ==
    /\ pc = "bulk"
    /\ fetcher = "mac"
    /\ consulted' = Append(consulted, "bulk")
    /\ IF csv_file.exists
       THEN /\ pc' = "process"
            /\ UNCHANGED << served, result >>
       ELSE /\ pc' = "done"
            /\ served' = "failed"
            /\ result' = None
    /\ UNCHANGED << fileRunVars, fileVars >>

\* CFPBRealDataFetcher().download_latest_data(force_download)
InitMacDownload ==
    /\ fetcher = "mac"
    /\ entry = "download_latest_data"
    /\ months_in = 2
    /\ env \in {EnvOf("no_arg", << "0" >>) @@ [force_download |-> b] : b \in BOOLEAN}
    /\ remote_table = << >>
    /\ max_records = 0
    /\ size = DefaultPageSize
    /\ cache_file = NoFile
    /\ csv_file \in {NoFile} \cup {CsvOf([cols |-> AllCols, rows |-> << >>], a) :
                                       a \in {0, Days(FreshDays)}}
    /\ run = [n |-> 1, elapsed |-> 0, more |-> FALSE, wrote |-> FALSE]
    /\ Fresh /\ IdleAnalyzer /\ IdleFilter

\* CFPBRealDataFetcher.download_latest_data: a complaints.csv younger than 7
\* days is reused unless force_download; otherwise requests.get(self.data_url,
\* stream=True) is called without a timeout: it answers, raises, or never
\* returns. extractall replaces complaints.csv only when the archive has a
\* member of that name, and an extraction that fails on the way (None is
\* returned) has already replaced it: with the whole member when a later
\* member of the archive fails, with the rows written so far and mostly the
\* beginning of the next one when the member itself fails
MacDownload ==
    /\ pc = "download"
    /\ IF csv_file.exists /\ ~env.force_download /\ TimedeltaDays(csv_file.age) < FreshDays
       THEN /\ result' = [kind |-> "path"]
            /\ pc' = "done"
            /\ UNCHANGED csv_file
       ELSE \/ /\ csv_file' \in {CsvOf(df, 0) : df \in BulkFrames(start_date, end_date)}
                                  \cup {UnreadableCsv, csv_file}
               /\ result' = [kind |-> "path"]
               /\ pc' = "done"
            \/ /\ result' = None
               /\ pc' = "done"
               /\ csv_file' \in {csv_file, UnreadableCsv}
                                \cup CutCsvFiles(start_date, end_date)
            \/ /\ pc' = "blocked"
               /\ UNCHANGED << result, csv_file >>
    /\ UNCHANGED << fileRunVars, cache_file, warnings, consulted, served >>

\* the filter of CFPBRealDataFetcher: all three columns are indexed directly
MacFilter(df, start, end) ==
    LET Keep(r) == /\ DateMask(r, start, end)
                   /\ NarrativeMask(r)
                   /\ ProductMask(r)
    IN  [cols |-> df.cols, rows |-> SelectSeq(df.rows, Keep)]

\* read_csv gives a column without a single string the dtype float64, and
\* .str on it raises AttributeError
StrAccessorFails(file) ==
    /\ NARRATIVE \in file.cols
    /\ file.rows # << >>
    /\ \A i \in 1..Len(file.rows) : file.rows[i].narr.isna

\* for chunk in pd.read_csv(csv_path, chunksize=chunk_size): chunks.append(chunk)
\* one turn of the loop; a file without rows gives one empty chunk
ReadChunk ==
    /\ pc = "process"
    /\ csv_file.readable
    /\ LET left == Len(csv_file.rows) * Copies(csv_file) - SumSeq(chunks)
       IN  /\ chunks = << >> \/ left > 0
           /\ chunks' = Append(chunks, Min2(ChunkSize, left))
    /\ UNCHANGED << fetcher, entry, months_in, env, max_records, analyzerVars, calls, self_df, gui,
                    trend_df,
                    pending, written, run, start_date, end_date, lite_mode, use_cache,
                    supabase_manager, remote_table, remote_status, provider,
                    searchVars, fileVars, filterVars, consulted, served, result, pc >>

\* every row of the file is in a chunk
AllRead ==
    /\ chunks # << >>
    /\ SumSeq(chunks) = Len(csv_file.rows) * Copies(csv_file)

\* what makes the try block of the processing raise (pd.to_datetime is
\* called without errors="coerce": a text that is no date raises)
ProcessRaises ==
    \/ ~csv_file.readable
    \/ "bad_date" \in DOMAIN csv_file
    \/ StrAccessorFails(csv_file)
    \/ DATE \notin csv_file.cols
    \/ fetcher = "mac" /\ ~({NARRATIVE, PRODUCT} \subseteq csv_file.cols)

\* reading, parsing or filtering complaints.csv raises: the except clause
\* returns None
ProcessFails ==
    /\ pc = "process"
    /\ ProcessRaises
    /\ csv_file.readable => AllRead
    /\ pc' = "done"
    /\ served' = "failed"
    /\ result' = None
    /\ UNCHANGED << fileRunVars, fileVars, consulted >>

\* the file is read, filtered, written to the cache file (a failed write is
\* swallowed) and returned
Process ==
    /\ pc = "process"
    /\ ~ProcessRaises
    /\ AllRead
    /\ LET df == [cols |-> csv_file.cols, rows |-> csv_file.rows]
           written_df == IF fetcher = "lite"
                          THEN LiteFilter(df, start_date, end_date)
                          ELSE MacFilter(df, start_date, end_date)
       IN  /\ result' = Table(WithCopies(written_df, Copies(csv_file)))
           /\ \E ok \in BOOLEAN :
                 cache_file' = IF ok THEN WithCopies(FreshFile(written_df.cols, written_df.rows),
                                                    Copies(csv_file))
                               ELSE cache_file
           /\ warnings' = IF fetcher = "lite" /\ NARRATIVE \notin df.cols
                          THEN warnings \cup {NARRATIVE}
                          ELSE warnings
    /\ pc' = "done"
    /\ served' = "bulk"
    /\ UNCHANGED << fileRunVars, csv_file, consulted >>

\* a second fetcher is constructed and load_and_filter_data is called again,
\* some time after the first run: the files on disk have aged by that time.
\* The time between the runs: a few minutes (less than a tick), half a day,
\* just under and just over a week
NextRun ==
    /\ pc = "done"
    /\ run.more
    /\ \E d \in {0, 1, Days(FreshDays) - 1, Days(FreshDays)} :
          /\ run' = [n |-> run.n + 1, elapsed |-> run.elapsed + d, more |-> FALSE,
                     wrote |-> /\ served = "bulk"
                               /\ cache_file.exists
                               /\ cache_file.rows = result.df.rows]
          /\ cache_file' = IF cache_file.exists
                           THEN [cache_file EXCEPT !.age = @ + d] ELSE cache_file
          /\ csv_file' = IF csv_file.exists
                         THEN [csv_file EXCEPT !.age = @ + d] ELSE csv_file
    /\ pc' = "new"
    /\ consulted' = << >>
    /\ served' = ""
    /\ result' = None
    /\ chunks' = << >>
    /\ warnings' = {}
    /\ UNCHANGED << fetcher, entry, months_in, env, max_records, analyzerVars, calls, self_df, gui,
                    trend_df, pending,
                    written, start_date, end_date, lite_mode, use_cache,
                    supabase_manager, remote_table, remote_status, provider,
                    searchVars, filterVars >>

FilesNext ==
    \/ FilesConstruct
    \/ CreateFastDataset
    \/ LocalCacheCheck
    \/ LiteReuseCsv
    \/ LiteDownload
    \/ LiteDownloadFails
    \/ MacFindCsv
    \/ MacDownload
    \/ ReadChunk
    \/ ProcessFails
    \/ Process
    \/ NextRun

-----------------------------------------------------------------------------
(* The filter step called on its own *)

FilterRecords(start, end) ==
    LET R(d, p, n) == [id |-> 0, date |-> d, product |-> p, narr |-> n]
        text == Str(<< " ", "a", " " >>)
    IN  {R(d, "Mortgage", text) : d \in {start - 1, start, end, end + 1, NaT}}
        \cup {R(start, p, text) :
                 p \in {"Credit reporting", "credit reporting", "Credit repair services",
                        "Other personal consumer reports",
                        "Credit reporting, credit repair services, or other personal consumer reports",
                        "Credit reporting or other personal consumer reports"}}
        \cup {R(end, "Mortgage", n) :
                 n \in {NaN, Str(<< >>), Str(<< " ", "\t" >>), Str(<< "\r", "\n" >>),
                        Str(<< "a", "\r", "\n" >>)}}
        \cup {R(end + 1, "Credit reporting", NaN)}

\* all batches of n records, numbered by position
RECURSIVE BatchesOfLen(_, _)
BatchesOfLen(n, U) ==
    IF n = 0 THEN {<< >>}
    ELSE {Append(b, [r EXCEPT !.id = n]) : b \in BatchesOfLen(n - 1, U), r \in U}

\* ten complaints: six pass, two lie outside the window, two are excluded
ScenarioRows(start, end) ==
    LET R(i, d, p) == [id |-> i, date |-> d, product |-> p, narr |-> Str(<< "a" >>)]
    IN  << R(1, start, "Mortgage"), R(2, start - 1, "Mortgage"),
           R(3, end, "Debt collection"), R(4, end, "Credit reporting"),
           R(5, start + 1, "Mortgage"), R(6, end + 1, "Student loan"),
           R(7, end - 1, "Credit card"), R(8, start, "Credit repair services"),
           R(9, end, "Mortgage"), R(10, start, "Student loan") >>

FilterBatches(start, end) ==
    LET rowsets == UNION {BatchesOfLen(n, FilterRecords(start, end)) : n \in 0..MaxBatch}
    IN  {[cols |-> AllCols, rows |-> rs] : rs \in rowsets \cup {ScenarioRows(start, end)}}
        \cup {[cols |-> {DATE, PRODUCT}, rows |-> DropNarrative(rs)] : rs \in rowsets}
        \cup {[cols |-> AllCols, rows |-> DropNarrative(rs), dtype |-> "float64"] :
                 rs \in BatchesOfLen(1, FilterRecords(start, end))}
        \cup {[cols |-> {DATE, NARRATIVE}, rows |-> DropProduct(rs)] :
                 rs \in BatchesOfLen(1, FilterRecords(start, end)) \cup {<< >>}}
        \cup {[cols |-> {PRODUCT, NARRATIVE}, rows |-> DropDate(rs)] :
                 rs \in BatchesOfLen(1, FilterRecords(start, end)) \cup {<< >>}}

\* SearchAPIRealDataFetcher(...)._apply_filters(batch), and once more on its result
InitFilter ==
    /\ fetcher = "search"
    /\ entry = "_apply_filters"
    /\ months_in = 2
    /\ env \in {EnvOf("no_arg", lm) : lm \in LiteModeInputs}
    /\ remote_table = << >>
    /\ max_records = 0
    /\ size = DefaultPageSize
    /\ Fresh /\ IdleAnalyzer /\ IdleFiles
    /\ batch \in FilterBatches(WindowStart(fetcher, months_in), Now)
    /\ once = EmptyFrame
    /\ twice = EmptyFrame

\* the filter step applied to a frame
FilterStep(df) == ApplyFilters(df, start_date, end_date, lite_mode)

FilterOnce ==
    /\ pc = "filter"
    /\ IF ApplyFiltersRaises(batch, lite_mode) # "none"
       THEN /\ pc' = "raised"
            /\ result' = RaisedWith(ApplyFiltersRaises(batch, lite_mode))
            /\ once' = once
       ELSE /\ once' = FilterStep(batch)
            /\ pc' = "filtered"
            /\ result' = result
    /\ UNCHANGED << cfgVars, searchVars, fileVars, batch, twice, consulted,
                    served >>

FilterTwice ==
    /\ pc = "filtered"
    /\ twice' = FilterStep(once)
    /\ pc' = "refiltered"
    /\ UNCHANGED << cfgVars, searchVars, fileVars, batch, once, consulted,
                    served, result >>

FilterNext ==
    \/ FilterOnce
    \/ FilterTwice

-----------------------------------------------------------------------------
(* CFPBAnalyzer.analyze_harm_mechanisms (src/analysis/cfpb_analyzer.py) *)

\* Regular expressions of the taxonomy, as trees: a pattern is a sequence of
\* nodes, a node a literal, ".*" or a group of alternatives "(?:a|b)"
DotStar == [t |-> "any"]
Lit(cs) == [t |-> "lit", s |-> cs]
Alt(xs) == [t |-> "alt", xs |-> xs]

\* self.harm_mechanisms, in the order of the dict
harm_mechanisms ==
    <<
      [harm_type |-> "Unauthorized Fees",
       patterns |-> <<
         \* fee.*(?:without|no|never).*(?:authorization|consent|permission|approval)
         << Lit(<< "f", "e", "e" >>), DotStar, Alt(<< << Lit(<< "w", "i", "t", "h", "o", "u",
           "t" >>) >>, << Lit(<< "n", "o" >>) >>, << Lit(<< "n", "e", "v", "e", "r" >>) >> >>),
           DotStar, Alt(<< << Lit(<< "a", "u", "t", "h", "o", "r", "i", "z", "a", "t", "i", "o",
           "n" >>) >>, << Lit(<< "c", "o", "n", "s", "e", "n", "t" >>) >>, << Lit(<< "p", "e",
           "r", "m", "i", "s", "s", "i", "o", "n" >>) >>, << Lit(<< "a", "p", "p", "r", "o",
           "v", "a", "l" >>) >> >>) >>,
         \* (?:charged|billing|billed).*(?:unauthorized|without.*permission)
         << Alt(<< << Lit(<< "c", "h", "a", "r", "g", "e", "d" >>) >>, << Lit(<< "b", "i", "l",
           "l", "i", "n", "g" >>) >>, << Lit(<< "b", "i", "l", "l", "e", "d" >>) >> >>), DotStar,
           Alt(<< << Lit(<< "u", "n", "a", "u", "t", "h", "o", "r", "i", "z", "e", "d" >>) >>,
           << Lit(<< "w", "i", "t", "h", "o", "u", "t" >>), DotStar, Lit(<< "p", "e", "r", "m",
           "i", "s", "s", "i", "o", "n" >>) >> >>) >>,
         \* fee.*(?:did not|didn\'t).*(?:authorize|approve|consent)
         << Lit(<< "f", "e", "e" >>), DotStar, Alt(<< << Lit(<< "d", "i", "d", " ", "n", "o",
           "t" >>) >>, << Lit(<< "d", "i", "d", "n", "'", "t" >>) >> >>), DotStar,
           Alt(<< << Lit(<< "a", "u", "t", "h", "o", "r", "i", "z", "e" >>) >>, << Lit(<< "a",
           "p", "p", "r", "o", "v", "e" >>) >>, << Lit(<< "c", "o", "n", "s", "e", "n",
           "t" >>) >> >>) >>,
         \* never.*(?:agreed|authorized|approved).*fee
         << Lit(<< "n", "e", "v", "e", "r" >>), DotStar, Alt(<< << Lit(<< "a", "g", "r", "e", "e",
           "d" >>) >>, << Lit(<< "a", "u", "t", "h", "o", "r", "i", "z", "e", "d" >>) >>,
           << Lit(<< "a", "p", "p", "r", "o", "v", "e", "d" >>) >> >>), DotStar, Lit(<< "f", "e",
           "e" >>) >> >>],
      [harm_type |-> "Excessive Fees",
       patterns |-> <<
         \* fee.*(?:excessive|too high|unreasonable|inflated|outrageous)
         << Lit(<< "f", "e", "e" >>), DotStar, Alt(<< << Lit(<< "e", "x", "c", "e", "s", "s", "i",
           "v", "e" >>) >>, << Lit(<< "t", "o", "o", " ", "h", "i", "g", "h" >>) >>,
           << Lit(<< "u", "n", "r", "e", "a", "s", "o", "n", "a", "b", "l", "e" >>) >>,
           << Lit(<< "i", "n", "f", "l", "a", "t", "e", "d" >>) >>, << Lit(<< "o", "u", "t",
           "r", "a", "g", "e", "o", "u", "s" >>) >> >>) >>,
         \* (?:overcharged|overcharge|charging too much)
         << Alt(<< << Lit(<< "o", "v", "e", "r", "c", "h", "a", "r", "g", "e", "d" >>) >>,
           << Lit(<< "o", "v", "e", "r", "c", "h", "a", "r", "g", "e" >>) >>, << Lit(<< "c",
           "h", "a", "r", "g", "i", "n", "g", " ", "t", "o", "o", " ", "m", "u", "c",
           "h" >>) >> >>) >>,
         \* fee.*(?:amount|price).*(?:excessive|ridiculous|unfair)
         << Lit(<< "f", "e", "e" >>), DotStar, Alt(<< << Lit(<< "a", "m", "o", "u", "n",
           "t" >>) >>, << Lit(<< "p", "r", "i", "c", "e" >>) >> >>), DotStar, Alt(<< << Lit(<< "e",
           "x", "c", "e", "s", "s", "i", "v", "e" >>) >>, << Lit(<< "r", "i", "d", "i", "c",
           "u", "l", "o", "u", "s" >>) >>, << Lit(<< "u", "n", "f", "a", "i", "r" >>) >> >>) >>,
         \* exorbitant.*fee
         << Lit(<< "e", "x", "o", "r", "b", "i", "t", "a", "n", "t" >>), DotStar, Lit(<< "f", "e",
           "e" >>) >> >>],
      [harm_type |-> "Hidden Fees",
       patterns |-> <<
         \* (?:hidden|undisclosed|surprise).*fee
         << Alt(<< << Lit(<< "h", "i", "d", "d", "e", "n" >>) >>, << Lit(<< "u", "n", "d", "i",
           "s", "c", "l", "o", "s", "e", "d" >>) >>, << Lit(<< "s", "u", "r", "p", "r", "i",
           "s", "e" >>) >> >>), DotStar, Lit(<< "f", "e", "e" >>) >>,
         \* fee.*(?:not disclosed|never told|didn\'t tell|wasn\'t told)
         << Lit(<< "f", "e", "e" >>), DotStar, Alt(<< << Lit(<< "n", "o", "t", " ", "d", "i", "s",
           "c", "l", "o", "s", "e", "d" >>) >>, << Lit(<< "n", "e", "v", "e", "r", " ", "t",
           "o", "l", "d" >>) >>, << Lit(<< "d", "i", "d", "n", "'", "t", " ", "t", "e", "l",
           "l" >>) >>, << Lit(<< "w", "a", "s", "n", "'", "t", " ", "t", "o", "l",
           "d" >>) >> >>) >>,
         \* fee.*(?:didn\'t know|unaware|no notice)
         << Lit(<< "f", "e", "e" >>), DotStar, Alt(<< << Lit(<< "d", "i", "d", "n", "'", "t", " ",
           "k", "n", "o", "w" >>) >>, << Lit(<< "u", "n", "a", "w", "a", "r", "e" >>) >>,
           << Lit(<< "n", "o", " ", "n", "o", "t", "i", "c", "e" >>) >> >>) >>,
         \* unexpected.*(?:fee|charge)
         << Lit(<< "u", "n", "e", "x", "p", "e", "c", "t", "e", "d" >>), DotStar,
           Alt(<< << Lit(<< "f", "e", "e" >>) >>, << Lit(<< "c", "h", "a", "r", "g",
           "e" >>) >> >>) >> >>],
      [harm_type |-> "Account Closure Without Notice",
       patterns |-> <<
         \* (?:closed|shut down|terminated).*account.*(?:without|no).*(?:notice|warning|explanation)
         << Alt(<< << Lit(<< "c", "l", "o", "s", "e", "d" >>) >>, << Lit(<< "s", "h", "u", "t",
           " ", "d", "o", "w", "n" >>) >>, << Lit(<< "t", "e", "r", "m", "i", "n", "a", "t",
           "e", "d" >>) >> >>), DotStar, Lit(<< "a", "c", "c", "o", "u", "n", "t" >>), DotStar,
           Alt(<< << Lit(<< "w", "i", "t", "h", "o", "u", "t" >>) >>, << Lit(<< "n",
           "o" >>) >> >>), DotStar, Alt(<< << Lit(<< "n", "o", "t", "i", "c", "e" >>) >>,
           << Lit(<< "w", "a", "r", "n", "i", "n", "g" >>) >>, << Lit(<< "e", "x", "p", "l",
           "a", "n", "a", "t", "i", "o", "n" >>) >> >>) >>,
         \* account.*(?:suddenly|unexpectedly).*closed
         << Lit(<< "a", "c", "c", "o", "u", "n", "t" >>), DotStar, Alt(<< << Lit(<< "s", "u", "d",
           "d", "e", "n", "l", "y" >>) >>, << Lit(<< "u", "n", "e", "x", "p", "e", "c", "t",
           "e", "d", "l", "y" >>) >> >>), DotStar, Lit(<< "c", "l", "o", "s", "e", "d" >>) >>,
         \* closed.*account.*(?:no reason|without cause)
         << Lit(<< "c", "l", "o", "s", "e", "d" >>), DotStar, Lit(<< "a", "c", "c", "o", "u", "n",
           "t" >>), DotStar, Alt(<< << Lit(<< "n", "o", " ", "r", "e", "a", "s", "o", "n" >>) >>,
           << Lit(<< "w", "i", "t", "h", "o", "u", "t", " ", "c", "a", "u", "s",
           "e" >>) >> >>) >> >>],
      [harm_type |-> "Denied Access to Funds",
       patterns |-> <<
         \* (?:can\'t|cannot|unable to).*(?:access|withdraw|get).*(?:funds|money)
         << Alt(<< << Lit(<< "c", "a", "n", "'", "t" >>) >>, << Lit(<< "c", "a", "n", "n", "o",
           "t" >>) >>, << Lit(<< "u", "n", "a", "b", "l", "e", " ", "t", "o" >>) >> >>), DotStar,
           Alt(<< << Lit(<< "a", "c", "c", "e", "s", "s" >>) >>, << Lit(<< "w", "i", "t", "h",
           "d", "r", "a", "w" >>) >>, << Lit(<< "g", "e", "t" >>) >> >>), DotStar,
           Alt(<< << Lit(<< "f", "u", "n", "d", "s" >>) >>, << Lit(<< "m", "o", "n", "e",
           "y" >>) >> >>) >>,
         \* (?:froze|frozen|locked).*(?:account|funds)
         << Alt(<< << Lit(<< "f", "r", "o", "z", "e" >>) >>, << Lit(<< "f", "r", "o", "z", "e",
           "n" >>) >>, << Lit(<< "l", "o", "c", "k", "e", "d" >>) >> >>), DotStar,
           Alt(<< << Lit(<< "a", "c", "c", "o", "u", "n", "t" >>) >>, << Lit(<< "f", "u", "n",
           "d", "s" >>) >> >>) >>,
         \* denied.*access.*(?:money|funds|account)
         << Lit(<< "d", "e", "n", "i", "e", "d" >>), DotStar, Lit(<< "a", "c", "c", "e", "s",
           "s" >>), DotStar, Alt(<< << Lit(<< "m", "o", "n", "e", "y" >>) >>, << Lit(<< "f", "u",
           "n", "d", "s" >>) >>, << Lit(<< "a", "c", "c", "o", "u", "n", "t" >>) >> >>) >>,
         \* withhold.*(?:funds|money|payment)
         << Lit(<< "w", "i", "t", "h", "h", "o", "l", "d" >>), DotStar, Alt(<< << Lit(<< "f", "u",
           "n", "d", "s" >>) >>, << Lit(<< "m", "o", "n", "e", "y" >>) >>, << Lit(<< "p", "a",
           "y", "m", "e", "n", "t" >>) >> >>) >> >>],
      [harm_type |-> "Credit Report Errors",
       patterns |-> <<
         \* (?:incorrect|wrong|inaccurate|false).*(?:information|entry).*credit report
         << Alt(<< << Lit(<< "i", "n", "c", "o", "r", "r", "e", "c", "t" >>) >>, << Lit(<< "w",
           "r", "o", "n", "g" >>) >>, << Lit(<< "i", "n", "a", "c", "c", "u", "r", "a", "t",
           "e" >>) >>, << Lit(<< "f", "a", "l", "s", "e" >>) >> >>), DotStar, Alt(<< << Lit(<< "i",
           "n", "f", "o", "r", "m", "a", "t", "i", "o", "n" >>) >>, << Lit(<< "e", "n", "t",
           "r", "y" >>) >> >>), DotStar, Lit(<< "c", "r", "e", "d", "i", "t", " ", "r", "e", "p",
           "o", "r", "t" >>) >>,
         \* credit report.*(?:error|mistake|wrong)
         << Lit(<< "c", "r", "e", "d", "i", "t", " ", "r", "e", "p", "o", "r", "t" >>), DotStar,
           Alt(<< << Lit(<< "e", "r", "r", "o", "r" >>) >>, << Lit(<< "m", "i", "s", "t", "a",
           "k", "e" >>) >>, << Lit(<< "w", "r", "o", "n", "g" >>) >> >>) >>,
         \* reporting.*(?:incorrect|inaccurate|false).*information
         << Lit(<< "r", "e", "p", "o", "r", "t", "i", "n", "g" >>), DotStar, Alt(<< << Lit(<< "i",
           "n", "c", "o", "r", "r", "e", "c", "t" >>) >>, << Lit(<< "i", "n", "a", "c", "c",
           "u", "r", "a", "t", "e" >>) >>, << Lit(<< "f", "a", "l", "s", "e" >>) >> >>), DotStar,
           Lit(<< "i", "n", "f", "o", "r", "m", "a", "t", "i", "o", "n" >>) >>,
         \* (?:negative|derogatory).*(?:mark|entry).*(?:error|incorrect|wrong)
         << Alt(<< << Lit(<< "n", "e", "g", "a", "t", "i", "v", "e" >>) >>, << Lit(<< "d", "e",
           "r", "o", "g", "a", "t", "o", "r", "y" >>) >> >>), DotStar, Alt(<< << Lit(<< "m", "a",
           "r", "k" >>) >>, << Lit(<< "e", "n", "t", "r", "y" >>) >> >>), DotStar,
           Alt(<< << Lit(<< "e", "r", "r", "o", "r" >>) >>, << Lit(<< "i", "n", "c", "o", "r",
           "r", "e", "c", "t" >>) >>, << Lit(<< "w", "r", "o", "n", "g" >>) >> >>) >> >>],
      [harm_type |-> "Identity Theft",
       patterns |-> <<
         \* identity.*(?:theft|stolen|fraud)
         << Lit(<< "i", "d", "e", "n", "t", "i", "t", "y" >>), DotStar, Alt(<< << Lit(<< "t", "h",
           "e", "f", "t" >>) >>, << Lit(<< "s", "t", "o", "l", "e", "n" >>) >>, << Lit(<< "f",
           "r", "a", "u", "d" >>) >> >>) >>,
         \* someone.*(?:opened|used).*(?:account|credit).*(?:my name|without)
         << Lit(<< "s", "o", "m", "e", "o", "n", "e" >>), DotStar, Alt(<< << Lit(<< "o", "p", "e",
           "n", "e", "d" >>) >>, << Lit(<< "u", "s", "e", "d" >>) >> >>), DotStar,
           Alt(<< << Lit(<< "a", "c", "c", "o", "u", "n", "t" >>) >>, << Lit(<< "c", "r", "e",
           "d", "i", "t" >>) >> >>), DotStar, Alt(<< << Lit(<< "m", "y", " ", "n", "a", "m",
           "e" >>) >>, << Lit(<< "w", "i", "t", "h", "o", "u", "t" >>) >> >>) >>,
         \* fraudulent.*account.*(?:my name|opened)
         << Lit(<< "f", "r", "a", "u", "d", "u", "l", "e", "n", "t" >>), DotStar, Lit(<< "a", "c",
           "c", "o", "u", "n", "t" >>), DotStar, Alt(<< << Lit(<< "m", "y", " ", "n", "a", "m",
           "e" >>) >>, << Lit(<< "o", "p", "e", "n", "e", "d" >>) >> >>) >>,
         \* victim.*identity theft
         << Lit(<< "v", "i", "c", "t", "i", "m" >>), DotStar, Lit(<< "i", "d", "e", "n", "t", "i",
           "t", "y", " ", "t", "h", "e", "f", "t" >>) >> >>],
      [harm_type |-> "Harassment by Debt Collector",
       patterns |-> <<
         \* (?:harass|harassment|threatening|threat).*(?:collector|collection|debt)
         << Alt(<< << Lit(<< "h", "a", "r", "a", "s", "s" >>) >>, << Lit(<< "h", "a", "r", "a",
           "s", "s", "m", "e", "n", "t" >>) >>, << Lit(<< "t", "h", "r", "e", "a", "t", "e",
           "n", "i", "n", "g" >>) >>, << Lit(<< "t", "h", "r", "e", "a", "t" >>) >> >>), DotStar,
           Alt(<< << Lit(<< "c", "o", "l", "l", "e", "c", "t", "o", "r" >>) >>, << Lit(<< "c",
           "o", "l", "l", "e", "c", "t", "i", "o", "n" >>) >>, << Lit(<< "d", "e", "b",
           "t" >>) >> >>) >>,
         \* (?:calling|called|contact).*(?:repeatedly|constantly|multiple times).*(?:day|hour)
         << Alt(<< << Lit(<< "c", "a", "l", "l", "i", "n", "g" >>) >>, << Lit(<< "c", "a", "l",
           "l", "e", "d" >>) >>, << Lit(<< "c", "o", "n", "t", "a", "c", "t" >>) >> >>), DotStar,
           Alt(<< << Lit(<< "r", "e", "p", "e", "a", "t", "e", "d", "l", "y" >>) >>,
           << Lit(<< "c", "o", "n", "s", "t", "a", "n", "t", "l", "y" >>) >>, << Lit(<< "m",
           "u", "l", "t", "i", "p", "l", "e", " ", "t", "i", "m", "e", "s" >>) >> >>), DotStar,
           Alt(<< << Lit(<< "d", "a", "y" >>) >>, << Lit(<< "h", "o", "u", "r" >>) >> >>) >>,
         \* debt collector.*(?:abusive|rude|threatening|aggressive)
         << Lit(<< "d", "e", "b", "t", " ", "c", "o", "l", "l", "e", "c", "t", "o", "r" >>),
           DotStar, Alt(<< << Lit(<< "a", "b", "u", "s", "i", "v", "e" >>) >>, << Lit(<< "r", "u",
           "d", "e" >>) >>, << Lit(<< "t", "h", "r", "e", "a", "t", "e", "n", "i", "n",
           "g" >>) >>, << Lit(<< "a", "g", "g", "r", "e", "s", "s", "i", "v", "e" >>) >> >>) >>,
         \* (?:won\'t stop|keep calling|constant calls)
         << Alt(<< << Lit(<< "w", "o", "n", "'", "t", " ", "s", "t", "o", "p" >>) >>,
           << Lit(<< "k", "e", "e", "p", " ", "c", "a", "l", "l", "i", "n", "g" >>) >>,
           << Lit(<< "c", "o", "n", "s", "t", "a", "n", "t", " ", "c", "a", "l", "l",
           "s" >>) >> >>) >> >>],
      [harm_type |-> "Refused Refund",
       patterns |-> <<
         \* (?:refused|denied|won\'t|will not).*(?:refund|return|reimburse)
         << Alt(<< << Lit(<< "r", "e", "f", "u", "s", "e", "d" >>) >>, << Lit(<< "d", "e", "n",
           "i", "e", "d" >>) >>, << Lit(<< "w", "o", "n", "'", "t" >>) >>, << Lit(<< "w", "i",
           "l", "l", " ", "n", "o", "t" >>) >> >>), DotStar, Alt(<< << Lit(<< "r", "e", "f", "u",
           "n", "d" >>) >>, << Lit(<< "r", "e", "t", "u", "r", "n" >>) >>, << Lit(<< "r", "e",
           "i", "m", "b", "u", "r", "s", "e" >>) >> >>) >>,
         \* refund.*(?:refused|denied|rejected)
         << Lit(<< "r", "e", "f", "u", "n", "d" >>), DotStar, Alt(<< << Lit(<< "r", "e", "f", "u",
           "s", "e", "d" >>) >>, << Lit(<< "d", "e", "n", "i", "e", "d" >>) >>, << Lit(<< "r",
           "e", "j", "e", "c", "t", "e", "d" >>) >> >>) >>,
         \* (?:request|asked for).*refund.*(?:denied|refused)
         << Alt(<< << Lit(<< "r", "e", "q", "u", "e", "s", "t" >>) >>, << Lit(<< "a", "s", "k",
           "e", "d", " ", "f", "o", "r" >>) >> >>), DotStar, Lit(<< "r", "e", "f", "u", "n",
           "d" >>), DotStar, Alt(<< << Lit(<< "d", "e", "n", "i", "e", "d" >>) >>, << Lit(<< "r",
           "e", "f", "u", "s", "e", "d" >>) >> >>) >>,
         \* entitled.*refund.*(?:refused|won\'t)
         << Lit(<< "e", "n", "t", "i", "t", "l", "e", "d" >>), DotStar, Lit(<< "r", "e", "f", "u",
           "n", "d" >>), DotStar, Alt(<< << Lit(<< "r", "e", "f", "u", "s", "e", "d" >>) >>,
           << Lit(<< "w", "o", "n", "'", "t" >>) >> >>) >> >>],
      [harm_type |-> "Misleading Marketing",
       patterns |-> <<
         \* (?:misled|deceived|tricked|lied).*(?:advertisement|marketing|promotion)
         << Alt(<< << Lit(<< "m", "i", "s", "l", "e", "d" >>) >>, << Lit(<< "d", "e", "c", "e",
           "i", "v", "e", "d" >>) >>, << Lit(<< "t", "r", "i", "c", "k", "e", "d" >>) >>,
           << Lit(<< "l", "i", "e", "d" >>) >> >>), DotStar, Alt(<< << Lit(<< "a", "d", "v", "e",
           "r", "t", "i", "s", "e", "m", "e", "n", "t" >>) >>, << Lit(<< "m", "a", "r", "k",
           "e", "t", "i", "n", "g" >>) >>, << Lit(<< "p", "r", "o", "m", "o", "t", "i", "o",
           "n" >>) >> >>) >>,
         \* (?:false|misleading|deceptive).*(?:advertising|marketing|claim)
         << Alt(<< << Lit(<< "f", "a", "l", "s", "e" >>) >>, << Lit(<< "m", "i", "s", "l", "e",
           "a", "d", "i", "n", "g" >>) >>, << Lit(<< "d", "e", "c", "e", "p", "t", "i", "v",
           "e" >>) >> >>), DotStar, Alt(<< << Lit(<< "a", "d", "v", "e", "r", "t", "i", "s", "i",
           "n", "g" >>) >>, << Lit(<< "m", "a", "r", "k", "e", "t", "i", "n", "g" >>) >>,
           << Lit(<< "c", "l", "a", "i", "m" >>) >> >>) >>,
         \* promised.*(?:but|however|never).*(?:delivered|received)
         << Lit(<< "p", "r", "o", "m", "i", "s", "e", "d" >>), DotStar, Alt(<< << Lit(<< "b", "u",
           "t" >>) >>, << Lit(<< "h", "o", "w", "e", "v", "e", "r" >>) >>, << Lit(<< "n", "e",
           "v", "e", "r" >>) >> >>), DotStar, Alt(<< << Lit(<< "d", "e", "l", "i", "v", "e", "r",
           "e", "d" >>) >>, << Lit(<< "r", "e", "c", "e", "i", "v", "e", "d" >>) >> >>) >>,
         \* bait and switch
         << Lit(<< "b", "a", "i", "t", " ", "a", "n", "d", " ", "s", "w", "i", "t", "c",
           "h" >>) >> >>],
      [harm_type |-> "Service Not Provided",
       patterns |-> <<
         \* (?:paid for|purchased).*(?:never received|didn\'t receive|not provided)
         << Alt(<< << Lit(<< "p", "a", "i", "d", " ", "f", "o", "r" >>) >>, << Lit(<< "p", "u",
           "r", "c", "h", "a", "s", "e", "d" >>) >> >>), DotStar, Alt(<< << Lit(<< "n", "e", "v",
           "e", "r", " ", "r", "e", "c", "e", "i", "v", "e", "d" >>) >>, << Lit(<< "d", "i",
           "d", "n", "'", "t", " ", "r", "e", "c", "e", "i", "v", "e" >>) >>, << Lit(<< "n",
           "o", "t", " ", "p", "r", "o", "v", "i", "d", "e", "d" >>) >> >>) >>,
         \* service.*(?:not provided|never delivered|didn\'t get)
         << Lit(<< "s", "e", "r", "v", "i", "c", "e" >>), DotStar, Alt(<< << Lit(<< "n", "o", "t",
           " ", "p", "r", "o", "v", "i", "d", "e", "d" >>) >>, << Lit(<< "n", "e", "v", "e",
           "r", " ", "d", "e", "l", "i", "v", "e", "r", "e", "d" >>) >>, << Lit(<< "d", "i",
           "d", "n", "'", "t", " ", "g", "e", "t" >>) >> >>) >>,
         \* charged.*(?:but|without).*(?:receiving|getting).*service
         << Lit(<< "c", "h", "a", "r", "g", "e", "d" >>), DotStar, Alt(<< << Lit(<< "b", "u",
           "t" >>) >>, << Lit(<< "w", "i", "t", "h", "o", "u", "t" >>) >> >>), DotStar,
           Alt(<< << Lit(<< "r", "e", "c", "e", "i", "v", "i", "n", "g" >>) >>, << Lit(<< "g",
           "e", "t", "t", "i", "n", "g" >>) >> >>), DotStar, Lit(<< "s", "e", "r", "v", "i", "c",
           "e" >>) >>,
         \* no service.*(?:provided|delivered|rendered)
         << Lit(<< "n", "o", " ", "s", "e", "r", "v", "i", "c", "e" >>), DotStar,
           Alt(<< << Lit(<< "p", "r", "o", "v", "i", "d", "e", "d" >>) >>, << Lit(<< "d", "e",
           "l", "i", "v", "e", "r", "e", "d" >>) >>, << Lit(<< "r", "e", "n", "d", "e", "r",
           "e", "d" >>) >> >>) >> >>],
      [harm_type |-> "Billing Disputes",
       patterns |-> <<
         \* (?:billed|charged).*(?:wrong amount|incorrect|error)
         << Alt(<< << Lit(<< "b", "i", "l", "l", "e", "d" >>) >>, << Lit(<< "c", "h", "a", "r",
           "g", "e", "d" >>) >> >>), DotStar, Alt(<< << Lit(<< "w", "r", "o", "n", "g", " ", "a",
           "m", "o", "u", "n", "t" >>) >>, << Lit(<< "i", "n", "c", "o", "r", "r", "e", "c",
           "t" >>) >>, << Lit(<< "e", "r", "r", "o", "r" >>) >> >>) >>,
         \* billing.*(?:error|mistake|incorrect|wrong)
         << Lit(<< "b", "i", "l", "l", "i", "n", "g" >>), DotStar, Alt(<< << Lit(<< "e", "r", "r",
           "o", "r" >>) >>, << Lit(<< "m", "i", "s", "t", "a", "k", "e" >>) >>, << Lit(<< "i",
           "n", "c", "o", "r", "r", "e", "c", "t" >>) >>, << Lit(<< "w", "r", "o", "n",
           "g" >>) >> >>) >>,
         \* charged.*(?:twice|multiple times|duplicate)
         << Lit(<< "c", "h", "a", "r", "g", "e", "d" >>), DotStar, Alt(<< << Lit(<< "t", "w", "i",
           "c", "e" >>) >>, << Lit(<< "m", "u", "l", "t", "i", "p", "l", "e", " ", "t", "i",
           "m", "e", "s" >>) >>, << Lit(<< "d", "u", "p", "l", "i", "c", "a", "t",
           "e" >>) >> >>) >>,
         \* statement.*(?:incorrect|wrong|error)
         << Lit(<< "s", "t", "a", "t", "e", "m", "e", "n", "t" >>), DotStar, Alt(<< << Lit(<< "i",
           "n", "c", "o", "r", "r", "e", "c", "t" >>) >>, << Lit(<< "w", "r", "o", "n",
           "g" >>) >>, << Lit(<< "e", "r", "r", "o", "r" >>) >> >>) >> >>],
      [harm_type |-> "Poor Customer Service",
       patterns |-> <<
         \* (?:customer service|representative|agent).*(?:rude|unhelpful|dismissive)
         << Alt(<< << Lit(<< "c", "u", "s", "t", "o", "m", "e", "r", " ", "s", "e", "r", "v",
           "i", "c", "e" >>) >>, << Lit(<< "r", "e", "p", "r", "e", "s", "e", "n", "t", "a",
           "t", "i", "v", "e" >>) >>, << Lit(<< "a", "g", "e", "n", "t" >>) >> >>), DotStar,
           Alt(<< << Lit(<< "r", "u", "d", "e" >>) >>, << Lit(<< "u", "n", "h", "e", "l", "p",
           "f", "u", "l" >>) >>, << Lit(<< "d", "i", "s", "m", "i", "s", "s", "i", "v",
           "e" >>) >> >>) >>,
         \* (?:can\'t|cannot|unable to).*(?:reach|contact|speak to).*(?:representative|someone)
         << Alt(<< << Lit(<< "c", "a", "n", "'", "t" >>) >>, << Lit(<< "c", "a", "n", "n", "o",
           "t" >>) >>, << Lit(<< "u", "n", "a", "b", "l", "e", " ", "t", "o" >>) >> >>), DotStar,
           Alt(<< << Lit(<< "r", "e", "a", "c", "h" >>) >>, << Lit(<< "c", "o", "n", "t", "a",
           "c", "t" >>) >>, << Lit(<< "s", "p", "e", "a", "k", " ", "t", "o" >>) >> >>), DotStar,
           Alt(<< << Lit(<< "r", "e", "p", "r", "e", "s", "e", "n", "t", "a", "t", "i", "v",
           "e" >>) >>, << Lit(<< "s", "o", "m", "e", "o", "n", "e" >>) >> >>) >>,
         \* (?:ignored|dismiss|refuse to help)
         << Alt(<< << Lit(<< "i", "g", "n", "o", "r", "e", "d" >>) >>, << Lit(<< "d", "i", "s",
           "m", "i", "s", "s" >>) >>, << Lit(<< "r", "e", "f", "u", "s", "e", " ", "t", "o",
           " ", "h", "e", "l", "p" >>) >> >>) >>,
         \* (?:transferred|transfer).*(?:multiple times|repeatedly|back and forth)
         << Alt(<< << Lit(<< "t", "r", "a", "n", "s", "f", "e", "r", "r", "e", "d" >>) >>,
           << Lit(<< "t", "r", "a", "n", "s", "f", "e", "r" >>) >> >>), DotStar,
           Alt(<< << Lit(<< "m", "u", "l", "t", "i", "p", "l", "e", " ", "t", "i", "m", "e",
           "s" >>) >>, << Lit(<< "r", "e", "p", "e", "a", "t", "e", "d", "l", "y" >>) >>,
           << Lit(<< "b", "a", "c", "k", " ", "a", "n", "d", " ", "f", "o", "r", "t",
           "h" >>) >> >>) >> >>],
      [harm_type |-> "Loan Modification Denied",
       patterns |-> <<
         \* (?:denied|rejected|refused).*(?:loan modification|mortgage modification)
         << Alt(<< << Lit(<< "d", "e", "n", "i", "e", "d" >>) >>, << Lit(<< "r", "e", "j", "e",
           "c", "t", "e", "d" >>) >>, << Lit(<< "r", "e", "f", "u", "s", "e", "d" >>) >> >>),
           DotStar, Alt(<< << Lit(<< "l", "o", "a", "n", " ", "m", "o", "d", "i", "f", "i", "c",
           "a", "t", "i", "o", "n" >>) >>, << Lit(<< "m", "o", "r", "t", "g", "a", "g", "e",
           " ", "m", "o", "d", "i", "f", "i", "c", "a", "t", "i", "o", "n" >>) >> >>) >>,
         \* modification.*(?:request|application).*(?:denied|rejected)
         << Lit(<< "m", "o", "d", "i", "f", "i", "c", "a", "t", "i", "o", "n" >>), DotStar,
           Alt(<< << Lit(<< "r", "e", "q", "u", "e", "s", "t" >>) >>, << Lit(<< "a", "p", "p",
           "l", "i", "c", "a", "t", "i", "o", "n" >>) >> >>), DotStar, Alt(<< << Lit(<< "d", "e",
           "n", "i", "e", "d" >>) >>, << Lit(<< "r", "e", "j", "e", "c", "t", "e",
           "d" >>) >> >>) >>,
         \* foreclosure.*(?:despite|even though).*modification
         << Lit(<< "f", "o", "r", "e", "c", "l", "o", "s", "u", "r", "e" >>), DotStar,
           Alt(<< << Lit(<< "d", "e", "s", "p", "i", "t", "e" >>) >>, << Lit(<< "e", "v", "e",
           "n", " ", "t", "h", "o", "u", "g", "h" >>) >> >>), DotStar, Lit(<< "m", "o", "d", "i",
           "f", "i", "c", "a", "t", "i", "o", "n" >>) >>,
         \* (?:won\'t|will not).*(?:modify|work with).*loan
         << Alt(<< << Lit(<< "w", "o", "n", "'", "t" >>) >>, << Lit(<< "w", "i", "l", "l", " ",
           "n", "o", "t" >>) >> >>), DotStar, Alt(<< << Lit(<< "m", "o", "d", "i", "f", "y" >>) >>,
           << Lit(<< "w", "o", "r", "k", " ", "w", "i", "t", "h" >>) >> >>), DotStar, Lit(<< "l",
           "o", "a", "n" >>) >> >>],
      [harm_type |-> "Predatory Lending",
       patterns |-> <<
         \* predatory.*(?:lending|loan|practice)
         << Lit(<< "p", "r", "e", "d", "a", "t", "o", "r", "y" >>), DotStar, Alt(<< << Lit(<< "l",
           "e", "n", "d", "i", "n", "g" >>) >>, << Lit(<< "l", "o", "a", "n" >>) >>,
           << Lit(<< "p", "r", "a", "c", "t", "i", "c", "e" >>) >> >>) >>,
         \* (?:high|excessive).*interest.*(?:rate|APR)
         << Alt(<< << Lit(<< "h", "i", "g", "h" >>) >>, << Lit(<< "e", "x", "c", "e", "s", "s",
           "i", "v", "e" >>) >> >>), DotStar, Lit(<< "i", "n", "t", "e", "r", "e", "s", "t" >>),
           DotStar, Alt(<< << Lit(<< "r", "a", "t", "e" >>) >>, << Lit(<< "A", "P",
           "R" >>) >> >>) >>,
         \* (?:trapped|stuck).*(?:loan|debt)
         << Alt(<< << Lit(<< "t", "r", "a", "p", "p", "e", "d" >>) >>, << Lit(<< "s", "t", "u",
           "c", "k" >>) >> >>), DotStar, Alt(<< << Lit(<< "l", "o", "a", "n" >>) >>, << Lit(<< "d",
           "e", "b", "t" >>) >> >>) >>,
         \* (?:misleading|deceptive).*loan.*terms
         << Alt(<< << Lit(<< "m", "i", "s", "l", "e", "a", "d", "i", "n", "g" >>) >>,
           << Lit(<< "d", "e", "c", "e", "p", "t", "i", "v", "e" >>) >> >>), DotStar, Lit(<< "l",
           "o", "a", "n" >>), DotStar, Lit(<< "t", "e", "r", "m", "s" >>) >> >>] >>

\* the literal cs occurs in text at position i, case ignored
LitAt(cs, text, i) ==
    /\ i + Len(cs) - 1 <= Len(text)
    /\ \A k \in 1..Len(cs) : LowerChar(text[i + k - 1]) = LowerChar(cs[k])

\* ".*" from any position of S: every later position of the same line
DotStarEnds(text, S) ==
    LET newlines == {k \in 1..Len(text) : text[k] = "\n"}
    IN  {j \in 1..(Len(text) + 1) :
            \E i \in S : i <= j /\ \A k \in newlines : k < i \/ k >= j}

\* the positions at which a match of the node (of the sequence of nodes) can
\* end when it starts at a position of S
RECURSIVE EndsNode(_, _, _)
RECURSIVE EndsCat(_, _, _)
EndsNode(node, text, S) ==
    CASE node.t = "lit" -> {i + Len(node.s) : i \in {h \in S : LitAt(node.s, text, h)}}
      [] node.t = "any" -> DotStarEnds(text, S)
      [] OTHER          -> UNION {EndsCat(node.xs[k], text, S) : k \in 1..Len(node.xs)}

EndsCat(cat, text, S) ==
    IF cat = << >> \/ S = {} THEN S
    ELSE EndsCat(Tail(cat), text, EndsNode(Head(cat), text, S))

\* re.search(pattern, text, re.IGNORECASE)
Search(pattern, text) == EndsCat(pattern, text, 1..(Len(text) + 1)) # {}

\* combined_pattern = '|'.join(patterns), then
\* Series.str.contains(combined_pattern, case=False, na=False, regex=True) on
\* one cell
Contains(patterns, narr) ==
    IF narr.isna THEN FALSE ELSE Search(<< Alt(patterns) >>, narr.s)

\* lambda x: f"{x}, {harm_type}" if x else harm_type, the cell as a label list
AddCategoryOverwrites(x, harm_type) == << harm_type >>

AddCategory(x, harm_type) == Append(x, harm_type)

\* the sort order of the product and company names
SortedNames == << "Acme Bank", "Credit card", "Mortgage", "Student loan", "Zenith Loans" >>

SortRank(name) == CHOOSE k \in 1..Len(SortedNames) : SortedNames[k] = name

\* Series.mode()[0]: the most frequent value, the first in sort order among
\* several
Mode0FirstEncountered(values) ==
    LET Count(v) == Cardinality({i \in 1..Len(values) : values[i] = v})
        vals == {values[i] : i \in 1..Len(values)}
        top == {v \in vals : \A w \in vals : Count(w) <= Count(v)}
        first == CHOOSE i \in 1..Len(values) :
                    values[i] \in top /\ \A j \in 1..(i - 1) : values[j] \notin top
    IN  values[first]

Mode0(values) ==
    LET Count(v) == Cardinality({i \in 1..Len(values) : values[i] = v})
        vals == {values[i] : i \in 1..Len(values)}
        top == {v \in vals : \A w \in vals : Count(w) <= Count(v)}
    IN  CHOOSE v \in top : \A w \in top : SortRank(v) <= SortRank(w)

\* one entry of harm_summary; Percentage is kept as the fraction num/den
SummaryEntry(harm_type, matching, total) ==
    [harm_type |-> harm_type,
     Count |-> Len(matching),
     Percentage |-> [num |-> Len(matching) * 100, den |-> total],
     TopProduct |-> Mode0([i \in 1..Len(matching) |-> matching[i].product]),
     TopCompany |-> Mode0([i \in 1..Len(matching) |-> matching[i].company])]

\* DataFrame.sort_values('Count', ascending=False): descending; the default
\* kind, quicksort, is not stable, so entries of equal Count may come out in
\* any order. The set of the orders the sort may give.
SortByCount(entries) ==
    LET n == Len(entries)
        orders == {o \in [1..n -> 1..n] : \A a, b \in 1..n : a # b => o[a] # o[b]}
    IN  {[p \in 1..n |-> entries[o[p]]] :
            o \in {q \in orders :
                      \A a, b \in 1..n : a < b => entries[q[a]].Count >= entries[q[b]].Count}}

\* 'they charged a fee without my authorization'
NarrFee == Str(<< "t", "h", "e", "y", " ", "c", "h", "a", "r", "g", "e", "d", " ", "a", " ", "f",
     "e", "e", " ", "w", "i", "t", "h", "o", "u", "t", " ", "m", "y", " ", "a", "u", "t", "h",
     "o", "r", "i", "z", "a", "t", "i", "o", "n" >>)

\* 'charged an unauthorized fee after identity theft'
NarrFeeAndTheft == Str(<< "c", "h", "a", "r", "g", "e", "d", " ", "a", "n", " ", "u", "n", "a", "u", "t",
     "h", "o", "r", "i", "z", "e", "d", " ", "f", "e", "e", " ", "a", "f", "t", "e", "r", " ",
     "i", "d", "e", "n", "t", "i", "t", "y", " ", "t", "h", "e", "f", "t" >>)

\* 'the bank was slow'
NarrSlow == Str(<< "t", "h", "e", " ", "b", "a", "n", "k", " ", "w", "a", "s", " ", "s", "l", "o",
     "w" >>)

\* 'COFFEE bar: I KNOW of no CONSENT'
NarrUpperCase == Str(<< "C", "O", "F", "F", "E", "E", " ", "b", "a", "r", ":", " ", "I", " ", "K", "N",
     "O", "W", " ", "o", "f", " ", "n", "o", " ", "C", "O", "N", "S", "E", "N", "T" >>)

\* 'late fee\nwithout consent'
NarrTwoLines == Str(<< "l", "a", "t", "e", " ", "f", "e", "e", "\n", "w", "i", "t", "h", "o", "u", "t",
     " ", "c", "o", "n", "s", "e", "n", "t" >>)
\* complaints of a loaded corpus
ComplaintInputs ==
    { [narr |-> NarrFee, product |-> "Mortgage", company |-> "Acme Bank"],
      [narr |-> NarrFeeAndTheft, product |-> "Credit card", company |-> "Zenith Loans"],
      [narr |-> NarrSlow, product |-> "Mortgage", company |-> "Zenith Loans"],
      [narr |-> NaN, product |-> "Student loan", company |-> "Acme Bank"],
      [narr |-> NarrUpperCase, product |-> "Credit card", company |-> "Acme Bank"],
      [narr |-> NarrTwoLines, product |-> "Mortgage", company |-> "Acme Bank"],
      \* 'fee without con\u017fent'
      [narr |-> Str(<< "f", "e", "e", " ", "w", "i", "t", "h", "o", "u", "t", " ", "c", "o",
                      "n", "u017f", "e", "n", "t" >>),
       product |-> "Mortgage", company |-> "Zenith Loans"] }

RECURSIVE CorporaOfLen(_)
CorporaOfLen(n) ==
    IF n = 0 THEN {<< >>}
    ELSE {Append(c, [id |-> n, narr |-> r.narr, product |-> r.product,
                     company |-> r.company]) :
             c \in CorporaOfLen(n - 1), r \in ComplaintInputs}

\* the dtype of the narrative column: a column without a single string is
\* float64 when it was read from a file, object otherwise; a frame left
\* without rows by a filter keeps the dtype of its column
DtypesOf(rs) ==
    IF \A i \in 1..Len(rs) : rs[i].narr.isna
    THEN {"object", "float64"} ELSE {"object"}

Corpora ==
    {None} \cup
    UNION {{[dtype |-> d, rows |-> rs] : d \in DtypesOf(rs)} :
              rs \in UNION {CorporaOfLen(n) : n \in 0..MaxCorpus}}

\* CFPBAnalyzer with some filtered_df, analyze_harm_mechanisms() called
InitAnalyzer ==
    /\ fetcher = "analyzer"
    /\ entry = "analyze_harm_mechanisms"
    /\ months_in = 2
    /\ env = EnvOf("no_arg", << "0" >>)
    /\ remote_table = << >>
    /\ max_records = 0
    /\ size = DefaultPageSize
    /\ Fresh /\ IdleFilter /\ IdleFiles
    /\ filtered_df \in Corpora
    /\ harm_i = 0
    /\ by_mechanism = << >>
    /\ harm_summary = << >>
    /\ harm_categories = << >>

analyzerRest == << fetcher, entry, months_in, env, max_records, start_date, end_date,
                   lite_mode, use_cache, supabase_manager, remote_table,
                   remote_status, provider, searchVars, fileVars, filterVars,
                   consulted, served, chunks, pending, written, run, gui, trend_df >>

\* analyze_harm_mechanisms, lines 252-260: the guard and the copy
AnalyzeCall ==
    /\ pc = "new"
    /\ fetcher = "analyzer"
    /\ entry = "analyze_harm_mechanisms"
    /\ IF filtered_df = None
       THEN /\ result' = RaisedWith("ValueError")
            /\ pc' = "done"
            /\ UNCHANGED << harm_i, harm_categories >>
       ELSE /\ harm_categories' = [i \in 1..Len(filtered_df.rows) |-> << >>]
            /\ harm_i' = 1
            /\ pc' = "harm_loop"
            /\ UNCHANGED result
    /\ UNCHANGED << analyzerRest, calls, self_df, filtered_df, by_mechanism, harm_summary >>

\* analyze_harm_mechanisms, lines 262-287: one turn of the loop over the
\* harm types
AnalyzeHarmType ==
    /\ pc = "harm_loop"
    /\ harm_i <= Len(harm_mechanisms)
    /\ IF filtered_df.dtype # "object"
       THEN /\ result' = RaisedWith("AttributeError")
            /\ pc' = "done"
            /\ UNCHANGED << harm_i, by_mechanism, harm_summary, harm_categories >>
       ELSE LET harm_type == harm_mechanisms[harm_i].harm_type
                patterns == harm_mechanisms[harm_i].patterns
                rs == filtered_df.rows
                mask == [i \in 1..Len(rs) |-> Contains(patterns, rs[i].narr)]
                Masked(r) == mask[r.id]
                df_copy == [i \in 1..Len(rs) |->
                              rs[i] @@ [harm_categories |-> harm_categories[i]]]
                matching_complaints == SelectSeq(df_copy, Masked)
            IN  /\ IF Len(matching_complaints) > 0
                   THEN /\ harm_categories' =
                             [i \in 1..Len(rs) |->
                                 IF mask[i] THEN AddCategory(harm_categories[i], harm_type)
                                 ELSE harm_categories[i]]
                        /\ by_mechanism' =
                             Append(by_mechanism, [harm_type |-> harm_type,
                                                   rows |-> matching_complaints])
                        /\ harm_summary' =
                             Append(harm_summary,
                                    SummaryEntry(harm_type, matching_complaints, Len(rs)))
                   ELSE UNCHANGED << by_mechanism, harm_summary, harm_categories >>
                /\ harm_i' = harm_i + 1
                /\ UNCHANGED << pc, result >>
    /\ UNCHANGED << analyzerRest, calls, self_df, filtered_df >>

\* analyze_harm_mechanisms, lines 289-296: the summary frame is sorted by
\* 'Count'; a frame built from an empty list has no such column
AnalyzeReturn ==
    /\ pc = "harm_loop"
    /\ harm_i > Len(harm_mechanisms)
    /\ IF harm_summary = << >>
       THEN result' = RaisedWith("KeyError")
       ELSE \E sorted \in SortByCount(harm_summary) :
               result' = [kind |-> "analysis",
                          by_mechanism |-> by_mechanism,
                          summary |-> sorted,
                          df_with_categories |-> harm_categories]
    /\ pc' = "done"
    /\ UNCHANGED << analyzerRest, calls, self_df, analyzerVars >>

\* CFPBAnalyzer(): df and filtered_df are None; operations are then called on
\* it in any order
InitProtocol ==
    /\ fetcher = "analyzer"
    /\ entry = "protocol"
    /\ months_in = 2
    /\ env = EnvOf("no_arg", << "0" >>)
    /\ remote_table = << >>
    /\ max_records = 0
    /\ size = DefaultPageSize
    /\ calls = << >>
    /\ self_df = None
    /\ Fresh /\ IdleFilter /\ IdleFiles /\ IdleAnalyzer

\* CFPBAnalyzer.load_and_filter_data(csv_path): read_csv raises
\* FileNotFoundError on a missing file; self.df is set; a file without the
\* expected columns raises KeyError at line 165; with them line 175 reads
\* self.credit_exclusions, which __init__ never sets: AttributeError
AnalyzerLoad ==
    /\ fetcher = "analyzer" /\ entry = "protocol"
    /\ Len(calls) < MaxCalls
    /\ \E csv \in {"missing", "other_columns", "expected_columns"} :
          /\ calls' = Append(calls, [op |-> "load_and_filter_data", arg |-> csv])
          /\ self_df' = IF csv = "missing" THEN self_df ELSE [kind |-> "frame", csv |-> csv]
          /\ result' = RaisedWith(CASE csv = "missing" -> "FileNotFoundError"
                                     [] csv = "other_columns" -> "KeyError"
                                     [] OTHER -> "AttributeError")
    /\ UNCHANGED << analyzerRest, harm_i, by_mechanism, harm_summary,
                   harm_categories, pc, filtered_df >>

\* An operation called while filtered_df is None (no step of a CFPBAnalyzer
\* assigns it: load_and_filter_data raises before line 178). get_top_trends,
\* analyze_harm_mechanisms, get_top_companies, get_sub_trends and
\* export_data_summary: if self.filtered_df is None: raise ValueError(...);
\* analyze_special_categories returns self._get_simulated_special_categories(),
\* a method the class does not have: AttributeError
AnalyzerGuarded ==
    /\ fetcher = "analyzer" /\ entry = "protocol"
    /\ Len(calls) < MaxCalls
    /\ filtered_df = None
    /\ \E op \in {"get_top_trends", "analyze_harm_mechanisms", "get_top_companies",
                   "get_sub_trends", "export_data_summary",
                   "analyze_special_categories"} :
          /\ calls' = Append(calls, [op |-> op, arg |-> ""])
          /\ result' = IF op = "analyze_special_categories"
                       THEN RaisedWith("AttributeError")
                       ELSE RaisedWith("ValueError")
    /\ UNCHANGED << analyzerRest, harm_i, by_mechanism, harm_summary,
                   harm_categories, pc, filtered_df, self_df >>

AnalyzerNext ==
    \/ AnalyzeCall
    \/ AnalyzeHarmType
    \/ AnalyzeReturn
    \/ AnalyzerLoad
    \/ AnalyzerGuarded

AnalyzerSpec == (InitAnalyzer \/ InitProtocol) /\ [][AnalyzerNext]_vars

\* Two runs with overlapping windows, each with the frames it hands to
\* SupabaseDataManager.cache_complaints one after the other; the second run
\* is in lite mode and has no narratives
InitCacheWriters ==
    /\ fetcher = "supabase"
    /\ entry = "cache_complaints"
    /\ months_in = 2
    /\ env = [parses |-> TRUE, creds |-> TRUE, use_cache_arg |-> TRUE,
              available |-> TRUE, LITE_MODE |-> << "0" >>]
    /\ max_records = 0
    /\ size = 1000
    /\ LET R(i, lite) == [id |-> i, date |-> Now - Days(i), product |-> "Mortgage",
                          narr |-> IF lite THEN NaN ELSE Str(<< "a" >>)]
           F(rs, lite) == [cols |-> IF lite THEN AllCols \ {NARRATIVE} ELSE AllCols,
                           rows |-> rs]
           first == {F(<< >>, FALSE), F(<< R(0, FALSE), R(1, FALSE) >>, FALSE)}
           second == {F(<< R(1, TRUE) >>, TRUE), F(<< R(1, TRUE), R(2, TRUE) >>, TRUE),
                      F(<< R(2, TRUE), R(2, TRUE) >>, TRUE)}
       IN  /\ pending \in {<< << a, b >>, << c, d >> >> :
                               a \in first, b \in first, c \in second, d \in second}
           /\ remote_table \in {<< >>,
                                 << [id |-> 1, date |-> Now - Days(40), product |-> "Mortgage",
                                     narr |-> Str(<< "b" >>), age |-> Days(3)] >>}
    /\ Fresh /\ IdleAnalyzer /\ IdleFilter /\ cache_file = NoFile /\ csv_file = NoFile

\* SupabaseDataManager.cache_complaints(df), called by run w: an empty frame
\* returns 0 without a request; otherwise one upsert request carries all
\* records, and a request that raises leaves the table as it was
CacheComplaints ==
    /\ fetcher = "supabase"
    /\ \E w \in 1..Len(pending) :
          /\ pending[w] # << >>
          /\ LET df == Head(pending[w])
             IN  \E ok \in BOOLEAN :
                    IF df.rows # << >> /\ ok
                    THEN /\ remote_table' = Upsert(remote_table, df.rows, df.cols)
                         /\ written' = Append(written, df)
                    ELSE UNCHANGED << remote_table, written >>
          /\ pending' = [pending EXCEPT ![w] = Tail(pending[w])]
          /\ pc' = IF \A v \in 1..Len(pending) : pending'[v] = << >> THEN "done" ELSE "caching"
    /\ UNCHANGED << fetcher, entry, months_in, env, max_records, analyzerVars, calls, self_df, gui,
                    trend_df, chunks,
                    run, start_date, end_date, lite_mode, use_cache, supabase_manager,
                    remote_status, provider, searchVars, fileVars, filterVars,
                    consulted, served, result >>

\* SupabaseDataManager.clear_old_data(days): every row whose date_received is
\* before the day of now - days is deleted (a row without a date is not); a
\* request that raises leaves the table as it was
ClearOldData ==
    /\ fetcher = "supabase"
    /\ Len(calls) < MaxCalls
    /\ \E days \in {30, 90}, ok \in BOOLEAN :
          LET cutoff_date == DayStart(Now - Days(days))
              Stays(row) == row.date = NaT \/ row.date >= cutoff_date
          IN  /\ calls' = Append(calls, [op |-> "clear_old_data", arg |-> days])
              /\ remote_table' = IF ok THEN SelectSeq(remote_table, Stays)
                                 ELSE remote_table
    /\ UNCHANGED << fetcher, entry, months_in, env, max_records, analyzerVars, self_df,
                    gui, trend_df, chunks, pending, written, run, start_date, end_date,
                    lite_mode, use_cache, supabase_manager, remote_status, provider,
                    searchVars, fileVars, filterVars, consulted, served, result, pc >>

SearchNext ==
    \/ SearchConstruct
    \/ SearchCheckRemote
    \/ SearchStartApi
    \/ PageStop
    \/ Page400
    \/ PageError
    \/ PageEmpty
    \/ PageYield
    \/ ConsumePage
    \/ PageDone
    \/ SearchNoRows
    \/ SearchFinish

\* TrendAnalytics.mortgage_complaints_vs_last_quarter on the frame df, called
\* at Now: None on no frame, an empty frame or a missing column; otherwise the
\* mortgage rows (Product contains 'Mortgage', case ignored, NaN never) of the
\* last 90 days and of the 90 days before are counted. pct_change is the
\* double ((current - previous) / previous) * 100; the percentage is
\* round(pct_change, 2), kept in hundredths: the nearest hundredth of the
\* double, the even one when the double is exactly half way. The quotient is
\* half way between two hundredths only from 32 previous rows on, and there
\* the double is computed bit by bit (FloatErr), since the two roundings of
\* the division and of the product can move it off the half. The direction is
\* the sign of the double, which is the sign of the difference.
MortgageVsLastQuarter(df) ==
    IF df = None \/ df.rows = << >> \/ df.cols = {} THEN None
    ELSE IF ~({DATE, PRODUCT} \subseteq df.cols) THEN None
    ELSE
      LET current_quarter_start == Now - Days(90)
          previous_quarter_start == Now - Days(180)
          previous_quarter_end == current_quarter_start
          IsMortgage(r) ==
              /\ ~r.product.isna
              /\ Search(<< Lit(<< "M", "o", "r", "t", "g", "a", "g", "e" >>) >>, r.product.s)
          mortgage_df == SelectSeq(df.rows, IsMortgage)
          InCurrent(r) == r.date # NaT /\ r.date >= current_quarter_start
          InPrevious(r) == /\ r.date # NaT
                           /\ r.date >= previous_quarter_start
                           /\ r.date < previous_quarter_end
          current_count == Len(SelectSeq(mortgage_df, InCurrent))
          previous_count == Len(SelectSeq(mortgage_df, InPrevious))
          diff == current_count - previous_count
          magnitude == IF diff < 0 THEN 0 - diff ELSE diff
          \* natural numbers as sequences of bits, the first bit the highest, and
          \* as sequences of limbs of ten bits
          BitLen(n) == CHOOSE k \in 0..30 : n < 2^k /\ (k = 0 \/ 2^(k - 1) <= n)
          Bin(n) == [i \in 1..BitLen(n) |-> (n \div 2^(BitLen(n) - i)) % 2]
          Zeros(n) == [i \in 1..n |-> 0]
          NoLead(bs) ==
              IF \A i \in 1..Len(bs) : bs[i] = 0 THEN << >>
              ELSE SubSeq(bs, CHOOSE f \in 1..Len(bs) :
                                  bs[f] = 1 /\ \A j \in 1..(f - 1) : bs[j] = 0, Len(bs))
          Inc(bs) ==
              IF \A i \in 1..Len(bs) : bs[i] = 1 THEN << 1 >> \o Zeros(Len(bs))
              ELSE LET z == CHOOSE z \in 1..Len(bs) :
                                bs[z] = 0 /\ \A j \in (z + 1)..Len(bs) : bs[j] = 1
                   IN  [i \in 1..Len(bs) |-> IF i < z THEN bs[i] ELSE IF i = z THEN 1 ELSE 0]
          BitsOf(ls) ==
              [i \in 1..(10 * Len(ls)) |-> (ls[(i + 9) \div 10] \div 2^(9 - ((i - 1) % 10))) % 2]
          ToLimbs(bs) ==
              LET n == (Len(bs) + 9) \div 10
                  b == Zeros(10 * n - Len(bs)) \o bs
              IN  [j \in 1..n |->
                      512 * b[10 * j - 9] + 256 * b[10 * j - 8] + 128 * b[10 * j - 7]
                      + 64 * b[10 * j - 6] + 32 * b[10 * j - 5] + 16 * b[10 * j - 4]
                      + 8 * b[10 * j - 3] + 4 * b[10 * j - 2] + 2 * b[10 * j - 1] + b[10 * j]]
          RECURSIVE MulLimbs(_, _, _)
          MulLimbs(ls, c, carry) ==
              IF ls = << >>
              THEN << carry \div 1024, carry % 1024 >>
              ELSE LET v == c * ls[Len(ls)] + carry
                   IN  Append(MulLimbs(SubSeq(ls, 1, Len(ls) - 1), c, v \div 1024), v % 1024)
          Times(bs, c) == NoLead(BitsOf(MulLimbs(ToLimbs(bs), c, 0)))
          \* n limbs of the fraction r / previous_count, then the remainder
          RECURSIVE QuotLimbs(_, _)
          QuotLimbs(r, n) ==
              IF n = 0 THEN << r >>
              ELSE << (r * 1024) \div previous_count >>
                   \o QuotLimbs((r * 1024) % previous_count, n - 1)
          \* the 53 bits of the double nearest to the number with the bits bs
          \* (and more below them), the even one of two, and the number of
          \* bits dropped
          RoundTo53(bs, more) ==
              LET n == Len(bs)
                  top == SubSeq(bs, 1, 53)
                  up == /\ n > 53
                        /\ bs[54] = 1
                        /\ \/ more
                           \/ \E i \in 55..n : bs[i] = 1
                           \/ top[53] = 1
                  t == IF up THEN Inc(top) ELSE top
              IN  IF Len(t) = 54 THEN [bits |-> SubSeq(t, 1, 53), drop |-> n - 53 + 1]
                  ELSE [bits |-> t, drop |-> n - 53]
          Cmp(a, b) ==
              IF Len(a) # Len(b) THEN (IF Len(a) > Len(b) THEN 1 ELSE 0 - 1)
              ELSE IF a = b THEN 0
              ELSE LET i == CHOOSE i \in 1..Len(a) :
                                a[i] # b[i] /\ \A j \in 1..(i - 1) : a[j] = b[j]
                   IN  IF a[i] > b[i] THEN 1 ELSE 0 - 1
          \* the sign of |pct_change|, the double, minus 100 * magnitude /
          \* previous_count, the number
          FloatErr ==
              LET ql == QuotLimbs(magnitude % previous_count, 9)
                  x == RoundTo53(NoLead(Bin(magnitude \div previous_count)
                                        \o BitsOf(SubSeq(ql, 1, 9))), ql[10] # 0)
                  y == RoundTo53(Times(x.bits, 100), FALSE)
              IN  Cmp(Times(y.bits, previous_count) \o Zeros(x.drop + y.drop),
                      Bin(100 * magnitude) \o Zeros(90))
          \* round(|pct_change|, 2) in hundredths
          q == (10000 * magnitude) \div previous_count
          rem == (10000 * magnitude) % previous_count
          rounded == IF 2 * rem > previous_count THEN q + 1
                     ELSE IF 2 * rem < previous_count THEN q
                     ELSE IF FloatErr > 0 THEN q + 1
                     ELSE IF FloatErr < 0 THEN q
                     ELSE q + (q % 2)
          percentage == IF previous_count > 0
                        THEN (IF diff < 0 THEN 0 - rounded ELSE rounded)
                        ELSE 0
          direction == IF previous_count > 0 /\ diff > 0 THEN "increase"
                       ELSE IF previous_count > 0 /\ diff < 0 THEN "decrease"
                       ELSE "no change"
      IN  [kind |-> "dict",
           current_quarter |-> current_count,
           previous_quarter |-> previous_count,
           change |-> [absolute |-> diff,
                       percentage |-> percentage,
                       direction |-> direction]]

\* TrendAnalytics(analyzer): self.df is the analyzer's frame or None. The
\* frames have up to MaxTrendRows rows, dated on both sides of each quarter
\* boundary or undated, with mortgage and other products; a frame with rows has
\* a text in some Product cell, so that the column holds strings.
InitTrend ==
    /\ fetcher = "trend"
    /\ entry = "mortgage_complaints_vs_last_quarter"
    /\ months_in = 2
    /\ env = EnvOf("no_arg", << "0" >>)
    /\ remote_table = << >>
    /\ max_records = 0
    /\ size = DefaultPageSize
    /\ LET kinds == {[date |-> Now, product |-> Str(<< "M", "o", "r", "t", "g", "a", "g", "e" >>)],
                     [date |-> Now - Days(90),
                      product |-> Str(<< "V", "A", " ", "m", "o", "r", "t", "g", "a", "g", "e" >>)],
                     [date |-> Now - Days(90) - 1,
                      product |-> Str(<< "M", "o", "r", "t", "g", "a", "g", "e" >>)],
                     [date |-> Now - Days(180),
                      product |-> Str(<< "M", "o", "r", "t", "g", "a", "g", "e" >>)],
                     [date |-> Now - Days(180) - 1,
                      product |-> Str(<< "M", "o", "r", "t", "g", "a", "g", "e" >>)],
                     [date |-> NaT, product |-> Str(<< "M", "o", "r", "t", "g", "a", "g", "e" >>)],
                     [date |-> Now, product |-> Str(<< "D", "e", "b", "t" >>)],
                     [date |-> Now, product |-> NaN]}
           rowss == UNION {[1..n -> kinds] : n \in 0..MaxTrendRows}
       IN  trend_df \in
             {None}
             \cup {[cols |-> c, rows |-> rs] :
                     c \in {{DATE, PRODUCT}},
                     rs \in {x \in rowss : x = << >> \/ \E i \in 1..Len(x) : ~x[i].product.isna}}
             \cup {[cols |-> c, rows |-> << [date |-> Now,
                       product |-> Str(<< "M", "o", "r", "t", "g", "a", "g", "e" >>)] >>] :
                     c \in {{}, {DATE}, {PRODUCT}}}
    /\ Fresh /\ IdleFilter /\ IdleFiles /\ IdleAnalyzer

\* one call of mortgage_complaints_vs_last_quarter()
TrendCall ==
    /\ fetcher = "trend"
    /\ pc = "new"
    /\ result' = MortgageVsLastQuarter(trend_df)
    /\ pc' = "done"
    /\ UNCHANGED << cfgVars, searchVars, fileVars, filterVars, consulted, served >>

\* CFPBAnalysisGUI.__init__ and create_analysis_tab: analysis_running False,
\* the Run button enabled, the Stop button built with state='disabled', no
\* worker thread, no callback queued on the Tk loop
InitGui ==
    /\ fetcher = "gui"
    /\ entry = "mainloop"
    /\ months_in = 2
    /\ env = EnvOf("no_arg", << "0" >>)
    /\ remote_table = << >>
    /\ max_records = 0
    /\ size = DefaultPageSize
    /\ gui = [analysis_running |-> FALSE, run_button |-> "normal",
              stop_button |-> "disabled", workers |-> 0, finishing |-> 0,
              resets |-> 0]
    /\ Fresh /\ IdleFilter /\ IdleFiles /\ IdleAnalyzer

\* run_analysis, the command of the Run button (a disabled button runs no
\* command): a warning and nothing else while analysis_running, otherwise the
\* flag is set, the buttons are switched and a daemon thread is started
RunClick ==
    /\ gui.run_button = "normal"
    /\ IF gui.analysis_running
       THEN gui' = gui
       ELSE /\ gui.workers + gui.resets < MaxWorkers
            /\ gui' = [gui EXCEPT !.analysis_running = TRUE,
                                  !.run_button = "disabled",
                                  !.stop_button = "normal",
                                  !.workers = @ + 1]

\* stop_analysis, the command of the Stop button: clears the flag and calls
\* _reset_analysis_ui; the thread is neither signalled nor joined
StopClick ==
    /\ gui.stop_button = "normal"
    /\ gui' = [gui EXCEPT !.analysis_running = FALSE,
                          !.run_button = "normal",
                          !.stop_button = "disabled"]

\* _run_analysis_thread reaching its finally block, line 570: a worker that
\* has not done so yet clears the flag
WorkerFinish ==
    /\ gui.workers > gui.finishing
    /\ gui' = [gui EXCEPT !.analysis_running = FALSE,
                          !.finishing = @ + 1]

\* line 571, a separate statement of the same thread, with no lock held in
\* between: _reset_analysis_ui is queued with root.after(0, ...) and the
\* thread ends
WorkerQueuesReset ==
    /\ gui.finishing > 0
    /\ gui' = [gui EXCEPT !.finishing = @ - 1,
                          !.workers = @ - 1,
                          !.resets = @ + 1]

\* _reset_analysis_ui run by the Tk loop from the queue
ResetUi ==
    /\ gui.resets > 0
    /\ gui' = [gui EXCEPT !.run_button = "normal",
                          !.stop_button = "disabled",
                          !.resets = @ - 1]

\* the Tk main loop of the desktop GUI: one handler at a time, interleaved
\* with the worker threads
GuiNext ==
    /\ fetcher = "gui"
    /\ RunClick \/ StopClick \/ WorkerFinish \/ WorkerQueuesReset \/ ResetUi
    /\ UNCHANGED << fetcher, entry, months_in, env, max_records, analyzerVars,
                    chunks, pending, written, run, calls, self_df, trend_df,
                    start_date, end_date, lite_mode, use_cache, supabase_manager,
                    remote_table, remote_status, provider, searchVars, fileVars,
                    filterVars, consulted, served, result, pc >>

Init == InitGui \/ InitTrend \/ InitSearchLoad \/ InitSearchPage \/ InitFiles \/ InitMacDownload \/ InitFilter
           \/ InitCacheWriters
Next == SearchNext \/ FilesNext \/ FilterNext \/ CacheComplaints \/ ClearOldData \/ GuiNext
           \/ TrendCall
Spec == Init /\ [][Next]_vars

-----------------------------------------------------------------------------
(* Properties *)

Load == entry = "load_and_filter_data"
Done == pc = "done"

Last(sq) == sq[Len(sq)]

\* the preference order of the sources
PreferenceOrder == << "remote", "local", "api", "bulk" >>

IsPrefix(a, b) == Len(a) <= Len(b) /\ \A i \in 1..Len(a) : a[i] = b[i]

\* C1 as stated: every run walks remote cache, local cache, search API, bulk
\* download in that order, each after the more-preferred ones, it ends in
\* Done at the first source that succeeds, and it ends in Failed only after
\* the bulk download failed.
C1_FourSourcesInOrder ==
    (Load /\ Done) =>
        /\ IsPrefix(consulted, PreferenceOrder)
        /\ (served = "failed" => Last(consulted) = "bulk")
        /\ (served # "failed" => served = Last(consulted))

\* the dates of the rows of a cache file, and the usability of the file
\* written out from its fields
RowDates(file) == {file.rows[i].date : i \in 1..Len(file.rows)}

FileUsable(file) ==
    /\ file.exists /\ file.readable
    /\ file.age < Days(FreshDays)
    /\ \E d \in RowDates(file) : d # NaT /\ d <= start_date
    /\ \E d \in RowDates(file) : d # NaT /\ d >= end_date - Days(ToleranceDays)

\* C2: the lite and mac fetchers return the local cache file if and only if
\* it is younger than 7 days, its earliest date is at or before the window
\* start and its latest date is at or after the window end minus 7 days;
\* otherwise the run goes on to the bulk file.
C2_LocalCacheIffUsable ==
    (Load /\ fetcher \in {"lite", "mac"}) =>
        /\ (served = "local" =>
               /\ FileUsable(cache_file)
               /\ result.kind = "table"
               /\ result.df.cols = cache_file.cols
               /\ result.df.rows = cache_file.rows
               /\ Copies(result.df) = Copies(cache_file)
               /\ consulted = << "local" >>)
        /\ (pc \in {"bulk", "process"} => ~FileUsable(cache_file))
        /\ (Done /\ consulted # << "local" >> => served # "local")
        /\ (Len(consulted) >= 2 => served # "local")

C2_Witness ==
    /\ Load /\ Done /\ served = "local"
    /\ cache_file.age = Days(FreshDays) - 1
    /\ \E d \in RowDates(cache_file) : d < end_date /\ d >= end_date - Days(ToleranceDays)


\* the rows of the remote table a run reads, and the usability of the entry
\* they make: every row retrieved less than 7 days ago and the rows reaching
\* from the window start to the window end minus 7 days
RemoteEntry == RemoteQuery(remote_table, start_date, end_date, max_records)

RemoteEntryUsable ==
    /\ RemoteEntry # << >>
    /\ \A i \in 1..Len(RemoteEntry) : RemoteEntry[i].age < Days(FreshDays)
    /\ \E i \in 1..Len(RemoteEntry) : RemoteEntry[i].date <= DayStart(start_date)
    /\ \E i \in 1..Len(RemoteEntry) :
          RemoteEntry[i].date >= DayStart(end_date) - Days(ToleranceDays)

\* C3 as stated: the search fetcher answers from the remote cache only when
\* the entry is usable (retrieved less than 7 days ago and covering the window
\* start to the window end minus 7 days); a stale or partial entry is a miss.
C3_RemoteServedOnlyWhenUsable ==
    (Load /\ fetcher = "search" /\ served = "remote") => RemoteEntryUsable

\* the records a provider answering at most what was asked has yielded
Compliant == provider.mode \in {"faithful", "flaky"}

\* C4: against a provider that returns at most the requested number of hits,
\* _page yields at most max_records records in total and every request it
\* issues starts at an offset below min(10000, max_records).
C4_PageBudgetAndOffset ==
    (fetcher = "search" /\ Compliant) =>
        /\ SumSeq(pages) <= max_records
        /\ \A i \in 1..Len(pages) : pages[i] <= requests[i].size
        /\ \A i \in 1..Len(requests) :
              /\ requests[i].frm < ApiMaxOffset
              /\ requests[i].frm < max_records
              /\ requests[i].size >= 1

C4_Witness ==
    /\ entry = "_page" /\ pc = "after_loop" /\ Compliant
    /\ warned
    /\ frm = ApiMaxOffset
    /\ SumSeq(pages) = ApiMaxOffset
    /\ max_records > ApiMaxOffset
    /\ Len(requests) = 2

\* C5 as stated: when the provider holds more records than max_records, the
\* load reports the truncation through its boolean flag (max_records = 250
\* against a provider with more than 250 records sets it).
C5_TruncationFlagSet ==
    (Load /\ Done /\ served = "api" /\ provider.mode = "faithful"
          /\ provider.total > max_records) => truncated


\* the three predicates of the filter, written on one record
InWindow(r) == r.date # NaT /\ start_date <= r.date /\ r.date <= end_date

HasNarrative(r) ==
    /\ ~r.narr.isna
    /\ \E i \in 1..Len(r.narr.s) : ~IsSpace(r.narr.s[i])

NotExcluded(r) ==
    /\ r.product # "Credit reporting, credit repair services, or other personal consumer reports"
    /\ r.product # "Credit reporting"
    /\ r.product # "Credit repair services"
    /\ r.product # "Other personal consumer reports"

\* the positions of the records of rs that satisfy the three predicates
Passing(rs, needNarr) ==
    {i \in 1..Len(rs) : /\ InWindow(rs[i])
                        /\ (needNarr => HasNarrative(rs[i]))
                        /\ NotExcluded(rs[i])}

\* out holds exactly the records of rs at the positions in keep, in the order
\* of rs, the narrative compared only when the output has the column
ExactlyKept(out, rs, keep) ==
    /\ Len(out.rows) = Cardinality(keep)
    /\ \A i \in 1..Len(out.rows) :
          \E k \in keep :
              /\ Cardinality({j \in keep : j <= k}) = i
              /\ out.rows[i].id = rs[k].id
              /\ out.rows[i].date = rs[k].date
              /\ out.rows[i].product = rs[k].product
              /\ (NARRATIVE \in out.cols => out.rows[i].narr = rs[k].narr)

\* C6: the filter step returns exactly the records of its input that lie in
\* the window (both bounds inclusive), have a narrative that is non-empty
\* after trimming (only when narratives are required: in _apply_filters when
\* lite mode is off and the column is present, in the lite fetcher whenever
\* the column is present) and whose product is not in the exclusion set by
\* exact match; the batch of ten records with six passing gives six rows.
C6_FilterExactlyThePassing ==
    /\ (entry = "_apply_filters" /\ pc \in {"filtered", "refiltered"} =>
           /\ ExactlyKept(once, batch.rows,
                          Passing(batch.rows, ~lite_mode /\ NARRATIVE \in batch.cols))
           /\ (batch.rows = ScenarioRows(start_date, end_date) => Len(once.rows) = 6))
    /\ (Load /\ fetcher = "lite" /\ Done /\ served = "bulk" =>
           /\ result.kind = "table"
           /\ ExactlyKept(result.df, csv_file.rows,
                          Passing(csv_file.rows, NARRATIVE \in csv_file.cols)))

C6_Witness ==
    /\ entry = "_apply_filters" /\ pc = "filtered"
    /\ ~lite_mode
    /\ batch.rows = ScenarioRows(start_date, end_date)
    /\ Len(once.rows) = 6

\* C7: _apply_filters is idempotent: applied to its own result, with the same
\* window and configuration, it returns the same records.
C7_FilterIdempotent ==
    (entry = "_apply_filters" /\ pc = "refiltered") =>
        /\ twice.rows = once.rows
        /\ twice.cols = once.cols

C7_Witness ==
    /\ entry = "_apply_filters" /\ pc = "refiltered"
    /\ once.rows # << >>
    /\ Len(once.rows) < Len(batch.rows)
    /\ twice = once

\* the requests that raised
FailedRequests == {i \in 1..Len(requests) : "failed" \in DOMAIN requests[i]}

\* C8 as stated: a load whose retrieval worked but matched zero complaints
\* returns an empty-but-successful result, never the failure sentinel that
\* stands for "no source could be retrieved".
C8_NoneOnlyOnFailure ==
    (Load /\ fetcher = "search" /\ Done /\ max_records > 0 /\ result = None) =>
        FailedRequests # {}

\* C9 as stated: when the search API fails, the run goes on to the bulk
\* archive download, and only a failure of that download ends it in Failed.
C9_ApiFailureGoesToBulk ==
    (Load /\ fetcher = "search" /\ Done /\ FailedRequests # {}) =>
        Last(consulted) = "bulk"

\* C10: the remote cache never aborts a run of the search fetcher. With the
\* credentials or the client library missing the construction raises nothing
\* and turns caching off; a failed read is a miss and a failed write is
\* swallowed; the run then returns what the search API loop returns, the
\* same as with caching off.
C10_CacheNeverAborts ==
    (Load /\ fetcher = "search") =>
        /\ (env.parses => result.kind # "raised")
        /\ (pc # "new" /\ env.parses =>
               /\ use_cache = (env.use_cache_arg /\ env.available /\ env.creds)
               /\ supabase_manager = use_cache)
        /\ (remote_status.read = "error" => pc # "new" /\ consulted[1] = "remote")
        /\ (Done /\ remote_status.read # "hit" =>
               /\ Last(consulted) = "api"
               /\ result = IF rows = << >> \/ FailedRequests # {}
                           THEN None
                           ELSE Table(ApplyFilters(RowsFrame(rows, max_records, lite_mode),
                                                   start_date, end_date, lite_mode)))

C10_Witness ==
    /\ Load /\ fetcher = "search" /\ Done
    /\ remote_status = [read |-> "error", write |-> "failed"]
    /\ result.kind = "table"
    /\ result.df.rows # << >>


\* the run of the analyzer has returned its three tables
Analyzed == fetcher = "analyzer" /\ pc = "done" /\ result.kind = "analysis"

\* the narrative matches at least one pattern of the harm type h
MatchesSome(h, narr) ==
    /\ ~narr.isna
    /\ \E k \in 1..Len(h.patterns) : Search(h.patterns[k], narr.s)

\* the labels of row i in the returned harm_categories column
LabelsOf(i) ==
    {result.df_with_categories[i][k] : k \in 1..Len(result.df_with_categories[i])}

\* the rows that carry the label of h
Carriers(h) == {i \in 1..Len(filtered_df.rows) : h.harm_type \in LabelsOf(i)}

\* C11: when analyze_harm_mechanisms returns, a complaint carries a label if
\* and only if its narrative matches at least one pattern of the label, case
\* ignored; labels are decided independently (a complaint may carry several
\* or none); the frame of a label holds exactly its carriers and the summary
\* Count of a label is the number of its carriers, labels without carriers
\* having no summary row.
C11_LabelIffPatternMatches ==
    Analyzed =>
        LET rs == filtered_df.rows
            sm == result.summary
            bm == result.by_mechanism
        IN  /\ Len(result.df_with_categories) = Len(rs)
            /\ \A m \in 1..Len(harm_mechanisms) :
                  LET h == harm_mechanisms[m]
                      rowsOf == {e \in 1..Len(sm) : sm[e].harm_type = h.harm_type}
                      frames == {e \in 1..Len(bm) : bm[e].harm_type = h.harm_type}
                  IN  /\ Carriers(h) = {i \in 1..Len(rs) : MatchesSome(h, rs[i].narr)}
                      /\ Cardinality(rowsOf) = IF Carriers(h) = {} THEN 0 ELSE 1
                      /\ \A e \in rowsOf : sm[e].Count = Cardinality(Carriers(h))
                      /\ Cardinality(frames) = IF Carriers(h) = {} THEN 0 ELSE 1
                      /\ \A e \in frames :
                            {bm[e].rows[k].id : k \in 1..Len(bm[e].rows)} = Carriers(h)
            /\ \A i \in 1..Len(rs) :
                  /\ Cardinality(LabelsOf(i)) = Len(result.df_with_categories[i])
                  /\ (rs[i].narr \in {NarrFee, NarrUpperCase} =>
                         LabelsOf(i) = {"Unauthorized Fees"})
                  /\ (rs[i].narr = NarrFeeAndTheft =>
                         LabelsOf(i) = {"Unauthorized Fees", "Identity Theft"})
                  /\ (rs[i].narr \in {NarrSlow, NarrTwoLines, NaN} => LabelsOf(i) = {})
                  /\ (/\ ~rs[i].narr.isna
                      /\ \E k \in 1..Len(rs[i].narr.s) : rs[i].narr.s[k] = "u017f"
                      => LabelsOf(i) = {"Unauthorized Fees"})

C11_Witness ==
    /\ Analyzed
    /\ Len(filtered_df.rows) = 2
    /\ LabelsOf(1) = {"Unauthorized Fees", "Identity Theft"}
    /\ LabelsOf(2) = {}
    /\ Len(result.summary) = 2

\* C12 as stated: analyze_harm_mechanisms raises no error for any loaded
\* corpus, also when no complaint matches any label, when the corpus is empty
\* and when narratives are missing.
C12_AnalyzeNeverRaises ==
    (fetcher = "analyzer" /\ pc = "done" /\ filtered_df # None) =>
        result.kind # "raised"


\* a fetcher has been constructed from a month count that is an integer
Constructed ==
    /\ fetcher \in {"search", "lite", "mac"}
    /\ pc \notin {"new", "raised"}
    /\ env.parses

\* m brought into lo..hi
ClampTo(m, lo, hi) == IF m < lo THEN lo ELSE IF m > hi THEN hi ELSE m

\* C13 as stated: for every fetcher the window is 30*m days long for m in
\* 1..12, and the one of the nearest bound (1 or 12) for m outside.
C13_WindowClampedTo12 ==
    Constructed =>
        end_date - start_date = Days(30 * ClampTo(months_in, 1, 12))

\* C13 (amended): the window ends now (the clock of the run that built the
\* fetcher) and is 30*m days long, m clamped to 1..12 by the lite and Mac
\* fetchers and to 1..3 by the search fetcher.
C13_WindowClampedPerClass ==
    Constructed =>
        /\ end_date = Now + run.elapsed
        /\ end_date - start_date =
              Days(30 * ClampTo(months_in, 1, IF fetcher = "search" THEN 3 ELSE 12))

C13_Witness ==
    /\ Constructed
    /\ fetcher = "search"
    /\ months_in = 13
    /\ end_date - start_date = Days(90)


\* C14 as stated: with lite mode enabled the table returned by
\* load_and_filter_data has no narrative column, on every path and for every
\* fetcher that reads LITE_MODE.
C14_LiteModeNoNarrativeColumn ==
    (Load /\ Done /\ lite_mode /\ result.kind = "table") =>
        NARRATIVE \notin result.df.cols


\* the configuration of the run is invalid: a month count that is not an
\* integer, or a record cap that is not positive
InvalidConfig ==
    \/ ~env.parses
    \/ fetcher = "search" /\ max_records <= 0

\* C15 as stated: an invalid configuration is rejected with a configuration
\* error before any network activity: the construction raises, and neither
\* the remote cache, nor the search API, nor the archive is consulted.
C15_InvalidConfigRejected ==
    (Load /\ fetcher \in {"search", "lite", "mac"} /\ InvalidConfig /\ pc # "new") =>
        /\ result.kind = "raised"
        /\ \A i \in 1..Len(consulted) : consulted[i] = "local"
        /\ requests = << >>


\* C16 as stated: no two rows of a table returned by load_and_filter_data
\* carry the same complaint id, whatever the sources return.
C16_ComplaintIdsUnique ==
    (Load /\ Done /\ result.kind = "table") =>
        Cardinality({result.df.rows[i].id : i \in 1..Len(result.df.rows)})
            = Len(result.df.rows)


\* a direct walk of _page has ended against a provider that holds at least
\* max_records records, max_records within the offset ceiling
FullWalk ==
    /\ entry = "_page" /\ pc = "done" /\ result.kind = "pages"
    /\ provider.mode \in {"faithful", "repeating"}
    /\ provider.total >= max_records
    /\ max_records <= ApiMaxOffset

\* the least k with k * d >= n
CeilDiv(n, d) == (n + d - 1) \div d

\* C17: such a walk issues exactly ceil(max_records / size) requests, the
\* k-th at offset (k-1)*size and of size min(size, max_records - yielded so
\* far), and yields exactly max_records records; max_records = 250 with
\* size = 100 gives the requests (0, 100), (100, 100), (200, 50).
C17_ExactRequestSequence ==
    FullWalk =>
        /\ Len(requests) = CeilDiv(max_records, size)
        /\ Len(pages) = Len(requests)
        /\ \A k \in 1..Len(requests) :
              /\ requests[k].frm = (k - 1) * size
              /\ requests[k].size =
                    IF size <= max_records - (k - 1) * size THEN size
                    ELSE max_records - (k - 1) * size
              /\ pages[k] = requests[k].size
        /\ SumSeq(pages) = max_records
        /\ (max_records = 250 /\ size = 100 =>
               requests = << [frm |-> 0, size |-> 100], [frm |-> 100, size |-> 100],
                             [frm |-> 200, size |-> 50] >>)

C17_Witness ==
    /\ FullWalk
    /\ max_records = 250 /\ size = 100
    /\ pages = << 100, 100, 50 >>
    /\ Len(requests) = 3


\* the requests that were answered with HTTP 400
Refused == {i \in 1..Len(requests) : "status" \in DOMAIN requests[i]}

\* C18 as stated: when a request gets HTTP 400 after k >= 0 pages were
\* yielded, paging stops without raising and load_and_filter_data returns the
\* filtered records of those k pages as the result of a successful fetch.
C18_400KeepsYieldedPages ==
    (Load /\ fetcher = "search" /\ Done /\ Refused # {}) =>
        /\ Refused = {Len(requests)}
        /\ Len(pages) = Len(requests) - 1
        /\ result = Table(ApplyFilters(RowsFrame(rows, max_records, lite_mode),
                                       start_date, end_date, lite_mode))


\* the predicates of the run, on one record with the columns cols
SatisfiesRun(r, cols) ==
    /\ DateMask(r, start_date, end_date)
    /\ ProductMask(r)
    /\ (NARRATIVE \in cols /\ ~(fetcher = "search" /\ lite_mode) => NarrativeMask(r))

\* the rows a step has put into the Supabase table
NewRemoteRows ==
    {i \in 1..Len(remote_table') :
        \A j \in 1..Len(remote_table) : remote_table[j] # remote_table'[i]}

\* C19 as stated: every record a run writes to a cache, the Supabase table or
\* the local cache file, satisfies the filter predicates of that run.
C19_WriteBackIsFiltered ==
    [][ /\ (remote_table' # remote_table /\ fetcher = "search" =>
              \A i \in NewRemoteRows :
                 SatisfiesRun(remote_table'[i],
                              RowsFrame(rows, max_records, lite_mode).cols))
        /\ (cache_file' # cache_file /\ "by" \notin DOMAIN cache_file' =>
              \A i \in 1..Len(cache_file'.rows) :
                 SatisfiesRun(cache_file'.rows[i], cache_file'.cols)) ]_vars


\* the predicates of the run that a frame with the columns cols can be put to
PassesPresent(r, cols, needNarr) ==
    /\ (DATE \in cols => DateMask(r, start_date, end_date))
    /\ (PRODUCT \in cols => ProductMask(r))
    /\ (needNarr /\ NARRATIVE \in cols => NarrativeMask(r))

\* the columns a predicate of the run needs and the frame lacks
MissingFields(cols, needNarr) ==
    ({DATE, PRODUCT} \cup (IF needNarr THEN {NARRATIVE} ELSE {})) \ cols

IdsOf(rs) == [i \in 1..Len(rs) |-> rs[i].id]

\* the outcome C20 describes for a filter run over the rows rs with columns cols
DegradesTo(out, rs, cols, needNarr) ==
    LET Keep(r) == PassesPresent(r, cols, needNarr)
    IN  /\ IdsOf(out) = IdsOf(SelectSeq(rs, Keep))
        /\ MissingFields(cols, needNarr) \subseteq warnings'

\* C20 as stated: when a column a predicate needs is absent from the frame,
\* the filter neither raises nor fails the run; the predicate on the absent
\* column lets every record pass, the other predicates apply, and a warning
\* that names the absent column is printed.
C20_MissingFieldDegrades ==
    [][ /\ (pc = "filter" /\ "dtype" \notin DOMAIN batch =>
              /\ pc' = "filtered"
              /\ DegradesTo(once'.rows, batch.rows, batch.cols, ~lite_mode))
        /\ (pc = "process" /\ pc' = "done" /\ csv_file.readable
              /\ ~StrAccessorFails(csv_file) =>
              /\ result'.kind = "table"
              /\ DegradesTo(result'.df.rows, csv_file.rows, csv_file.cols, TRUE)) ]_vars


\* the summary row of the harm type h, and the values of the field f of its
\* carriers
SummaryRowsOf(h) == {e \in 1..Len(result.summary) : result.summary[e].harm_type = h.harm_type}
Occurrences(h, f, v) == Cardinality({i \in Carriers(h) : filtered_df.rows[i][f] = v})
MostFrequent(h, f) ==
    {filtered_df.rows[i][f] : i \in
        {i \in Carriers(h) :
            \A j \in Carriers(h) :
               Occurrences(h, f, filtered_df.rows[j][f]) <= Occurrences(h, f, filtered_df.rows[i][f])}}

\* the first carrier of h, in corpus order, whose value of f is a most frequent one
FirstEncountered(h, f) ==
    LET i == CHOOSE i \in Carriers(h) :
                /\ filtered_df.rows[i][f] \in MostFrequent(h, f)
                /\ \A j \in Carriers(h) :
                      j < i => filtered_df.rows[j][f] \notin MostFrequent(h, f)
    IN  filtered_df.rows[i][f]

\* C21 as stated: 'Top Product' of a label is the most frequent product among
\* the label's complaints, the one met first in corpus order when several
\* tie; 'Top Company' likewise.
C21_TopIsFirstEncountered ==
    Analyzed =>
        \A m \in 1..Len(harm_mechanisms) : \A e \in SummaryRowsOf(harm_mechanisms[m]) :
            /\ result.summary[e].TopProduct = FirstEncountered(harm_mechanisms[m], "product")
            /\ result.summary[e].TopCompany = FirstEncountered(harm_mechanisms[m], "company")

\* C21 (amended): 'Top Product' of a label is the most frequent product among
\* the label's complaints, the first in the sort order of the values when
\* several tie; 'Top Company' likewise.
C21_TopIsFirstInSortOrder ==
    Analyzed =>
        \A m \in 1..Len(harm_mechanisms) : \A e \in SummaryRowsOf(harm_mechanisms[m]) :
            LET h == harm_mechanisms[m]
                row == result.summary[e]
            IN  /\ row.TopProduct \in MostFrequent(h, "product")
                /\ \A v \in MostFrequent(h, "product") : SortRank(row.TopProduct) <= SortRank(v)
                /\ row.TopCompany \in MostFrequent(h, "company")
                /\ \A v \in MostFrequent(h, "company") : SortRank(row.TopCompany) <= SortRank(v)

\* two complaints of one label tie, and the first of the corpus is not the
\* first in sort order
C21_Witness ==
    /\ Analyzed
    /\ \E m \in 1..Len(harm_mechanisms) : \E e \in SummaryRowsOf(harm_mechanisms[m]) :
          /\ Cardinality(MostFrequent(harm_mechanisms[m], "product")) = 2
          /\ result.summary[e].TopProduct = "Credit card"
          /\ FirstEncountered(harm_mechanisms[m], "product") = "Mortgage"


\* C22 as stated: on the bulk path the file is parsed in chunks and never
\* held whole: at every point of load_and_filter_data at most one chunk
\* (50000 rows) of unfiltered rows is in memory.
C22_AtMostOneChunkHeld ==
    (fetcher \in {"lite", "mac"} /\ Load) =>
        /\ \A k \in 1..Len(chunks) : chunks[k] <= ChunkSize
        /\ SumSeq(chunks) <= ChunkSize


\* C23 as stated: every run terminates with a result: no network call (search
\* API page, archive download, remote cache read or write) waits without a
\* timeout and so none blocks for ever, and the pagination loop issues at most
\* ceil(min(10000, max_records) / page_size) requests whatever the provider
\* returns.
C23_NoCallBlocksAndPagesBounded ==
    /\ pc # "blocked"
    /\ (fetcher = "search" /\ entry \in {"load_and_filter_data", "_page"} /\ Constructed =>
           Len(requests) <= Max2(0, CeilDiv(Min2(ApiMaxOffset, max_records), size)))


\* the records of the log that carry the complaint id, as positions (call, row)
WritesOf(id) ==
    {c \in (1..Len(written)) \X (1..2) :
        c[2] <= Len(written[c[1]].rows) /\ written[c[1]].rows[c[2]].id = id}

\* the record of the last write for the complaint id, as it was sent: the
\* day of the date, and the empty text for a frame without narrative column
LastWriteOf(id) ==
    LET c == CHOOSE c \in WritesOf(id) :
                \A d \in WritesOf(id) : d[1] < c[1] \/ (d[1] = c[1] /\ d[2] <= c[2])
        r == written[c[1]].rows[c[2]]
    IN  [id |-> r.id, product |-> r.product,
         date |-> IF r.date = NaT THEN NaT ELSE DayStart(r.date),
         narr |-> IF NARRATIVE \in written[c[1]].cols THEN r.narr ELSE Str(<< >>)]

RowSet(table) == {table[i] : i \in 1..Len(table)}

\* C24: after any sequence of cache_complaints calls, those of two runs with
\* overlapping windows interleaved, the table holds at most one row per
\* complaint id and that row carries the values of the last write for the id;
\* a call that repeats the records of the call before it leaves the same set
\* of rows. (The calls are cache_complaints calls only: no clear_old_data
\* among them. The date of a row is the day of the written date, the column
\* being a date.)
C24_UpsertKeyedById ==
    /\ []((fetcher = "supabase" /\ calls = << >>) =>
            /\ \A i, j \in 1..Len(remote_table) :
                  remote_table[i].id = remote_table[j].id => i = j
            /\ \A i \in 1..Len(remote_table) :
                  WritesOf(remote_table[i].id) # {} =>
                     FrameRow(remote_table[i]) = LastWriteOf(remote_table[i].id)
            /\ \A k \in 1..Len(written) : \A n \in 1..Len(written[k].rows) :
                  \E i \in 1..Len(remote_table) : remote_table[i].id = written[k].rows[n].id)
    /\ [][(fetcher = "supabase" /\ calls = << >> /\ written # << >>
              /\ written' = Append(written, Last(written)))
            => RowSet(remote_table') = RowSet(remote_table)]_vars

\* both runs have written the complaint 1 with different values, and a call
\* has repeated the records of the call before it
C24_Witness ==
    /\ fetcher = "supabase" /\ pc = "done"
    /\ Len(written) = 4
    /\ written[1] = written[2]
    /\ Len(written[1].rows) = 2
    /\ written[3].rows[1].id = 1 /\ NARRATIVE \notin written[3].cols
    /\ Len(remote_table) = 3


\* C25 as stated: every record of the table load_and_filter_data returns has
\* its 'Date received' inside the window of the run, on every path, the one
\* served from the local filtered cache file included.
C25_ReturnedDatesInWindow ==
    (Load /\ Done /\ result.kind = "table") =>
        \A i \in 1..Len(result.df.rows) :
            DateMask(result.df.rows[i], start_date, end_date)


\* C26 as stated: the filtered cache file a run has written is accepted by
\* the next run with the same month count whenever that run starts less than
\* 7 days later and the latest date of the cached data is within 7 days of
\* the new window end; so a second run a few minutes after the first is
\* served from the cache file.
C26_NextRunServedFromCache ==
    [][ (/\ pc = "start" /\ consulted' # consulted
         /\ run.n = 2 /\ run.wrote /\ "by" \notin DOMAIN cache_file
         /\ run.elapsed < Days(FreshDays)
         /\ cache_file.rows # << >>
         /\ MaxDate(cache_file.rows) >= end_date - Days(ToleranceDays))
        => (/\ served' = "local"
            /\ result' = Table([cols |-> cache_file.cols, rows |-> cache_file.rows])) ]_vars


\* C27 as stated: every row of by_mechanism[L] has the harm_categories value
\* the same complaint has in df_with_categories, and so lists L together with
\* every other label the complaint matches.
C27_MechanismRowsCarryAllLabels ==
    Analyzed =>
        \A e \in 1..Len(result.by_mechanism) :
            \A k \in 1..Len(result.by_mechanism[e].rows) :
                LET row == result.by_mechanism[e].rows[k]
                IN  /\ row.harm_categories = result.df_with_categories[row.id]
                    /\ \E n \in 1..Len(row.harm_categories) :
                          row.harm_categories[n] = result.by_mechanism[e].harm_type


GuardedOps == {"get_top_trends", "analyze_harm_mechanisms", "get_top_companies",
               "get_sub_trends", "export_data_summary"}

\* C28 as stated: while no load_and_filter_data has succeeded, the five
\* guarded operations raise ValueError('Data not loaded...') and leave the
\* analyzer as it was; load_and_filter_data on a readable CSV with the
\* expected columns sets filtered_df, and from then on none of the five
\* raises that error.
C28_LoadThenAnalyse ==
    [][ (fetcher = "analyzer" /\ entry = "protocol" /\ calls' # calls) =>
          LET c == Last(calls')
          IN  /\ (c.op \in GuardedOps /\ filtered_df = None =>
                     /\ result' = RaisedWith("ValueError")
                     /\ filtered_df' = filtered_df /\ self_df' = self_df)
              /\ (c.op = "load_and_filter_data" /\ c.arg = "expected_columns" =>
                     filtered_df' # None)
              /\ (c.op \in GuardedOps /\ filtered_df # None =>
                     result' # RaisedWith("ValueError")) ]_vars


\* C29 as stated: in the desktop GUI at most one analysis worker thread is
\* executing at any moment, whatever the sequence of Run and Stop clicks.
C29_AtMostOneWorker ==
    fetcher = "gui" => gui.workers <= 1


\* C30 as stated: in every answer of mortgage_complaints_vs_last_quarter the
\* direction agrees with the absolute change: 'increase' exactly when it is
\* positive, 'decrease' exactly when it is negative, 'no change' exactly when
\* it is zero, a previous count of 0 included.
C30_DirectionAgreesWithAbsolute ==
    (fetcher = "trend" /\ pc = "done" /\ result.kind = "dict") =>
        result.change.direction =
            (IF result.change.absolute > 0 THEN "increase"
             ELSE IF result.change.absolute < 0 THEN "decrease"
             ELSE "no change")

=============================================================================
